---- MODULE Spec2Model ----
(***************************************************************************)
(* Message transport and delivery core of the decentralized P2P chat:      *)
(* P2PNetworkManager (src/lib/p2p-network.ts, in its broadcast-channel,    *)
(* WebRTC/signaling and global-store variants), MessageManager,            *)
(* StorageManager and CryptoManager (src/lib/crypto.ts, on tweetnacl, and   *)
(* src/unnamed/part_000, on libsodium), SecurityManager                    *)
(* (src/unnamed/part_001) and the contact manager (src/unnamed/part_004).  *)
(*                                                                         *)
(* Two browser contexts ("tabs") of the same origin run one manager each.  *)
(* They share the BroadcastChannel and localStorage; every tab has its own *)
(* MessageManager, message listeners and persisted contacts and messages.  *)
(***************************************************************************)
EXTENDS Integers, Sequences, FiniteSets, TLC

\* ------------------------------------------------------------------ bounds
MaxHandlers == 2      \* calls of MessageManager.initialize per tab
MaxListeners == 2     \* listeners registered with MessageManager.onMessage per tab
MsgListeners == 1     \* of these, listeners registered in the runs of the message path
MaxTasks == 2         \* handleNetworkMessage invocations in flight per tab
MaxInbox == 2         \* BroadcastChannel events queued per tab
MaxInject == 1        \* payloads that reach the tabs from foreign contexts and peers
MaxSend == 1          \* MessageManager.sendDirectMessage calls
MaxOverlap == 2       \* initialize calls of one tab in flight at once
MaxPublish == 2       \* sendDirectMessage / sendGroupMessage calls of the libp2p manager
MaxTicks == 2         \* clock steps
MaxConnects == 6      \* connectToSignalingServer calls
MaxShutdowns == 1     \* shutdown calls

\* ------------------------------------------------------- program constants
PeerMaxAge == 30000          \* cleanupOldPeers / loadStoredPeers maxAge (ms)
GlobalPeerMaxAge == 15000    \* checkGlobalPeers maxAge for peers (ms)
GlobalMessageMaxAge == 30000 \* checkGlobalPeers freshness of a queued message (ms)
GlobalQueueWindow == 300000  \* storeGlobalMessage pruning window (ms)
MaxMessageAge == 300000      \* SecurityManager.settings.maxMessageAge (5 minutes)
maxReconnectAttempts == 5    \* P2PNetworkManager.maxReconnectAttempts
ReconnectBaseDelay == 1000   \* scheduleReconnect: 1000 * 2^reconnectAttempts (ms)
ReconnectMaxDelay == 30000   \* scheduleReconnect: the cap of the delay (ms)

\* ----------------------------------------------------------- model values
StartTime == 1000000         \* Date.now() in the initial state (ms)
TickMs == 16000              \* one clock step (ms)
OldAge == 600000             \* age of a replayed envelope: 10 minutes (ms)

Tabs == {"t1", "t2"}
Senders == {"t1"}            \* the tab whose user sends in the runs
Receivers == {"t2"}          \* the tab foreign traffic and contact edits go to
UserIds == {"A", "B", "C"}   \* A and B run a tab each, C is a third identity
GroupIds == {"G"}
NoId == ""                   \* undefined recipientId / groupId, null currentUser
Variants == {"broadcast", "webrtc", "global"}

UserOf(t) == IF t = "t1" THEN "A" ELSE "B"
OtherUser(t) == IF t = "t1" THEN "B" ELSE "A"

\* ------------------------------------------------------------ CryptoManager
PublicKeyOf(u) == "pk" \o u
PrivateKeyOf(u) == "sk" \o u

\* The owner of the key pair a key string belongs to; a string that is no key
\* of a generated pair (an id typed in as a key) belongs to nobody's pair.
KeyOwner(k) ==
  CASE k \in {"pkA", "skA"} -> "A"
    [] k \in {"pkB", "skB"} -> "B"
    [] k \in {"pkC", "skC"} -> "C"
    [] OTHER -> "none:" \o k

\* generateUserId: a collision-resistant hash of the public key.
generateUserId(publicKey) ==
  CASE publicKey = "pkA" -> "A"
    [] publicKey = "pkB" -> "B"
    [] publicKey = "pkC" -> "C"
    [] OTHER -> "hash:" \o publicKey

\* nacl.box derives one shared key from (their public key, my private key).
BoxKey(publicKey, privateKey) == {KeyOwner(publicKey), KeyOwner(privateKey)}

DecryptionFailed == "Decryption failed"
ExpectedString == "TypeError: expected string"
NotUint8Array == "TypeError: unexpected type, use Uint8Array"

VARIABLES
  cryptoLib,         \* the CryptoManager in use: "tweetnacl" (lib/crypto.ts) or "libsodium" (part_000)
  cryptoCall         \* the last CryptoManager calls made on their own: arguments and results

\* Values carry their JavaScript type. tweetnacl-util: decodeUTF8(s) gives the
\* bytes of a string and throws TypeError for a value that is no string;
\* encodeUTF8(arr) gives the string that an array of bytes encodes, and for a
\* string (whose elements are no numbers) a string of NUL characters.
JsString(s) == [type |-> "string", value |-> s]
Uint8Array(b) == [type |-> "Uint8Array", value |-> b]
decodeUTF8(s) ==
  IF s.type = "string" THEN Uint8Array(s.value)
  ELSE [type |-> "TypeError", value |-> ExpectedString]
encodeUTF8(arr) ==
  IF arr.type = "Uint8Array" THEN JsString(arr.value)
  ELSE JsString(IF arr.value = "" THEN "" ELSE "NUL")

\* The conversions between text and bytes as each CryptoManager writes them:
\* encodeUTF8(message) and decodeUTF8(decrypted) with tweetnacl, from_string
\* and to_string with libsodium.
messageBytes(message) ==
  IF cryptoLib = "tweetnacl" THEN encodeUTF8(JsString(message))
  ELSE Uint8Array(message)
decryptedText(decrypted) ==
  IF cryptoLib = "tweetnacl" THEN decodeUTF8(decrypted)
  ELSE JsString(decrypted.value)

\* nacl.box, nacl.secretbox (crypto_box_easy, crypto_secretbox_easy): an
\* authenticated ciphertext of the bytes msg; a msg that is no Uint8Array
\* throws. mac stands for the state of the ciphertext bytes behind the nonce:
\* as sealed ("valid"), with a byte flipped, or with the end cut off.
Seal(kind, msg, key) ==
  IF msg.type # "Uint8Array" THEN [kind |-> "thrown", error |-> NotUint8Array]
  ELSE [kind |-> kind, pt |-> msg.value, key |-> key, mac |-> "valid"]

\* nacl.box.open, nacl.secretbox.open: the bytes, or null when the ciphertext
\* does not authenticate under the key. (OpenUnchecked returns the bytes
\* whatever the key and the state of the ciphertext.)
OpenUnchecked(kind, encrypted, key) == Uint8Array(encrypted.pt)
Open(kind, encrypted, key) ==
  IF encrypted.kind = kind /\ encrypted.mac = "valid" /\ encrypted.key = key
  THEN Uint8Array(encrypted.pt)
  ELSE [type |-> "null", value |-> ""]

\* (encryptDirectMessagePlain hands the message on as it is.)
encryptDirectMessagePlain(message, recipientPublicKey, senderPrivateKey) ==
  [kind |-> "plain", pt |-> message, key |-> {}, mac |-> "none"]

encryptDirectMessage(message, recipientPublicKey, senderPrivateKey) ==
  Seal("box", messageBytes(message), BoxKey(recipientPublicKey, senderPrivateKey))

decryptDirectMessage(encryptedMessage, senderPublicKey, recipientPrivateKey) ==
  LET decrypted == Open("box", encryptedMessage, BoxKey(senderPublicKey, recipientPrivateKey))
      text == decryptedText(decrypted)
  IN IF decrypted.type = "null" THEN DecryptionFailed ELSE text.value

SymmetricKeyOf(g) == "sym" \o g

encryptGroupMessage(message, symmetricKey) ==
  Seal("secretbox", messageBytes(message), {symmetricKey})

decryptGroupMessage(encryptedMessage, symmetricKey) ==
  LET decrypted == Open("secretbox", encryptedMessage, {symmetricKey})
      text == decryptedText(decrypted)
  IN IF decrypted.type = "null" THEN DecryptionFailed ELSE text.value

\* What the catch around a decrypt call of handleNetworkMessage catches.
DecryptErrors == {DecryptionFailed, ExpectedString}

\* The texts and expiry times of the calls made on the CryptoManager itself.
Plaintexts == {"", "hello", "hi"}
ExpiryTimes == {StartTime - 1, StartTime, StartTime + 1}

\* JSON.stringify({content, expiresAt}) and JSON.parse of a text: the object
\* the text was made from, SyntaxError for any other text.
JSONstringify(obj) ==
  "{\"content\":\"" \o obj.content \o "\",\"expiresAt\":" \o ToString(obj.expiresAt) \o "}"
JSONparse(text) ==
  LET objects == [content : Plaintexts, expiresAt : ExpiryTimes]
  IN IF \E obj \in objects : JSONstringify(obj) = text
     THEN [error |-> FALSE, obj |-> CHOOSE obj \in objects : JSONstringify(obj) = text]
     ELSE [error |-> TRUE, obj |-> [content |-> "", expiresAt |-> 0]]

encryptEphemeralMessage(message, recipientPublicKey, senderPrivateKey, expirationTime) ==
  encryptDirectMessage(JSONstringify([content |-> message, expiresAt |-> expirationTime]),
                       recipientPublicKey, senderPrivateKey)

\* decryptEphemeralMessage at the time clock: null when the decryption or the
\* parse throws.
decryptEphemeralMessage(encryptedMessage, senderPublicKey, recipientPrivateKey, clock) ==
  LET decryptedData ==
        decryptDirectMessage(encryptedMessage, senderPublicKey, recipientPrivateKey)
      messageData == JSONparse(decryptedData)
  IN IF decryptedData \in DecryptErrors \/ messageData.error
     THEN [isNull |-> TRUE, content |-> "", isExpired |-> FALSE]
     ELSE [isNull |-> FALSE, content |-> messageData.obj.content,
           isExpired |-> clock > messageData.obj.expiresAt]

\* ---------------------------------------------------------- SecurityManager
isMessageTimestampValid(timestamp, clock) ==
  LET messageAge == clock - timestamp
  IN messageAge >= 0 /\ messageAge <= MaxMessageAge

VARIABLES
  variant,           \* which P2PNetworkManager the tabs run
  now,               \* Date.now()
  ticks,             \* clock steps taken
  currentUser,       \* P2PNetworkManager.currentUser (id or NoId), per tab
  isInitialized,     \* P2PNetworkManager.isInitialized
  broadcastChannel,  \* P2PNetworkManager.broadcastChannel is open
  messageHandlers,   \* number of handleNetworkMessage handlers in messageHandlers
  peers,             \* keys of P2PNetworkManager.peers
  dataChannels,      \* peers whose RTCDataChannel is open (WebRTC variant)
  mmCurrentUser,     \* MessageManager.currentUser (id or NoId)
  messageListeners,  \* number of listeners in MessageManager.messageListeners
  contacts,          \* StorageManager contactStore: id -> [publicKey, isBlocked]
  groups,            \* StorageManager groupStore: ids of the stored groups
  messages,          \* StorageManager messageStore: id -> Message
  inbox,             \* events queued for a tab's onmessage callbacks: [via, data]
  tasks,             \* handleNetworkMessage invocations suspended at an await
  discoveredPeers,   \* localStorage["p2p-discovered-peers"]: id -> [lastSeen, publicKey]
  globalPeers,       \* localStorage["p2p-global-peers"]: id -> [lastSeen, publicKey]
  globalMessages,    \* localStorage["p2p-global-messages"]: queue of entries
  handed,            \* envelopes handleIncomingMessage passed to the handlers
  accepted,          \* inbound messages saved by handleNetworkMessage
  notified,          \* <<message id, listener>> -> number of notifications
  statusEvents,      \* notifyPeerStatus calls of the last step
  lastHeard,         \* peer id -> time of the last announcement a tab handled
  signalingServer,   \* the signaling WebSocket is open (WebRTC variant)
  nInject,           \* payloads received from foreign contexts and peers so far
  nSend              \* sendDirectMessage calls so far

VARIABLES
  isNetworkOnline,   \* P2PNetworkManager.isNetworkOnline (WebRTC variant)
  reconnectAttempts, \* P2PNetworkManager.reconnectAttempts
  reconnectTimers,   \* delays (ms) of the pending setTimeout calls of scheduleReconnect
  fallbackOnly,      \* scheduleReconnect has found the attempts exhausted
  connLog,           \* the last call of connectToSignalingServer and what it scheduled
  nConnect,          \* connectToSignalingServer calls so far
  liveChannels,      \* BroadcastChannel objects the manager opened and has not closed
  intervals,         \* setInterval timer sets started and never cleared
  nShutdown,         \* shutdown calls so far
  lastSend,          \* the last send: channels open, tried, accepting, the error thrown
  keyPair,           \* StorageManager keyStore holds "userKeys"
  throwing,          \* the registered listeners that throw, by position
  lastDispatch,      \* the last listener dispatch: message id, stored, listeners called
  uncaught           \* an exception has escaped a receive callback of the tab

VARIABLES
  libp2pNode,        \* P2PNetworkManager.libp2pNode holds a started node (libp2p variant)
  pubsubTopics,      \* the topics the node's GossipSub service is subscribed to
  pubsubEvents,      \* pubsub "message" events waiting for their listener
  libp2pPeers,       \* libp2pNode.getPeers(): the tabs whose node is connected
  directSent         \* direct messages published while both nodes were initialised and connected

VARIABLES
  chatMessages       \* ChatInterface: the active chat and the chatMessages loaded for it

VARIABLES
  closedPeers        \* entries of the peer map whose connection has failed or whose data channel has closed

VARIABLES
  initPending,       \* initialize calls of the tab suspended at the await of their connection
  liveSockets        \* signaling WebSockets those calls created and that have not failed

connVars == <<isNetworkOnline, reconnectAttempts, reconnectTimers, fallbackOnly,
              connLog, nConnect>>
lifeVars == <<liveChannels, intervals, nShutdown>>
sendVars == <<lastSend, keyPair>>
dispatchVars == <<throwing, lastDispatch, uncaught>>
cryptoVars == <<cryptoLib, cryptoCall>>
libp2pVars == <<libp2pNode, pubsubTopics, pubsubEvents, libp2pPeers, directSent>>
initVars == <<initPending, liveSockets>>

vars == <<variant, now, ticks, currentUser, isInitialized, broadcastChannel,
          messageHandlers, peers, dataChannels, mmCurrentUser, messageListeners, contacts,
          groups, messages, inbox, tasks, discoveredPeers, globalPeers,
          globalMessages, handed, accepted, notified, statusEvents, lastHeard,
          signalingServer, nInject, nSend, connVars, lifeVars, sendVars,
          dispatchVars, cryptoVars, libp2pVars, initVars, closedPeers, chatMessages>>

NoCall == [fn |-> "none", by |-> "none", plaintext |-> "", sender |-> NoId,
           recipient |-> NoId, expiresAt |-> 0, sealed |-> [kind |-> "none"],
           from |-> NoId, opener |-> NoId, opened |-> "none",
           ephemeral |-> [isNull |-> TRUE, content |-> "", isExpired |-> FALSE]]

NoConnect == [tab |-> "none", by |-> "none", attempted |-> FALSE, failed |-> FALSE,
              scheduled |-> <<>>, attemptsBefore |-> 0, fallbackOnly |-> FALSE,
              raised |-> FALSE]
NoSend == [tab |-> "none", kind |-> "none", target |-> "", open |-> {}, tried |-> <<>>,
           accepted |-> {}, error |-> "none", saved |-> FALSE]
NoDispatch == [tab |-> "none", id |-> <<>>, stored |-> FALSE, registered |-> 0,
               called |-> <<>>, threw |-> FALSE]

NoEvents == [by |-> "none", tab |-> "none", events |-> {}]

\* The persisted stores a StorageManager opens, a backup having been imported:
\* the other tab's user as a contact with its real public key, and the group G.
RestoredContacts(t) ==
  [id \in {OtherUser(t)} |->
     [id |-> id, publicKey |-> PublicKeyOf(id), isBlocked |-> FALSE]]

\* The state after construction, whichever manager lib/p2p-network.ts holds.
InitState ==
  /\ now = StartTime
  /\ ticks = 0
  /\ currentUser = [t \in Tabs |-> NoId]
  /\ isInitialized = [t \in Tabs |-> FALSE]
  /\ broadcastChannel = [t \in Tabs |-> FALSE]
  /\ messageHandlers = [t \in Tabs |-> 0]
  /\ peers = [t \in Tabs |-> {}]
  /\ dataChannels = [t \in Tabs |-> {}]
  /\ mmCurrentUser = [t \in Tabs |-> NoId]
  /\ messageListeners = [t \in Tabs |-> 0]
  /\ contacts = [t \in Tabs |-> RestoredContacts(t)]
  /\ groups = [t \in Tabs |-> GroupIds]
  /\ messages = [t \in Tabs |-> [i \in {} |-> 0]]
  /\ inbox = [t \in Tabs |-> <<>>]
  /\ tasks = [t \in Tabs |-> <<>>]
  /\ discoveredPeers = [i \in {} |-> 0]
  /\ globalPeers = [i \in {} |-> 0]
  /\ globalMessages = <<>>
  /\ handed = [t \in Tabs |-> {}]
  /\ accepted = [t \in Tabs |-> {}]
  /\ notified = [t \in Tabs |-> [i \in {} |-> 0]]
  /\ statusEvents = NoEvents
  /\ lastHeard = [t \in Tabs |-> [i \in {} |-> 0]]
  /\ signalingServer = [t \in Tabs |-> FALSE]
  /\ nInject = 0
  /\ nSend = 0
  /\ isNetworkOnline = [t \in Tabs |-> TRUE]
  /\ reconnectAttempts = [t \in Tabs |-> 0]
  /\ reconnectTimers = [t \in Tabs |-> <<>>]
  /\ fallbackOnly = [t \in Tabs |-> FALSE]
  /\ connLog = NoConnect
  /\ nConnect = 0
  /\ liveChannels = [t \in Tabs |-> 0]
  /\ intervals = [t \in Tabs |-> 0]
  /\ nShutdown = 0
  /\ lastSend = NoSend
  /\ keyPair = [t \in Tabs |-> TRUE]
  /\ throwing = [t \in Tabs |-> {}]
  /\ lastDispatch = NoDispatch
  /\ uncaught = [t \in Tabs |-> FALSE]
  /\ cryptoLib \in {"tweetnacl", "libsodium"}
  /\ cryptoCall = NoCall
  /\ libp2pNode = [t \in Tabs |-> FALSE]
  /\ pubsubTopics = [t \in Tabs |-> {}]
  /\ pubsubEvents = [t \in Tabs |-> <<>>]
  /\ libp2pPeers = [t \in Tabs |-> {}]
  /\ directSent = {}
  /\ initPending = [t \in Tabs |-> 0]
  /\ liveSockets = [t \in Tabs |-> 0]
  /\ closedPeers = [t \in Tabs |-> {}]
  /\ chatMessages = [t \in Tabs |-> [chat |-> NoId, messages |-> <<>>]]

Init ==
  /\ variant \in Variants
  /\ InitState

\* f with key k set to v (Map.set, localforage setItem, obj[k] = v).
Put(f, k, v) == [x \in DOMAIN f \cup {k} |-> IF x = k THEN v ELSE f[x]]
\* f without the keys in ks (delete obj[k]).
Drop(f, ks) == [x \in DOMAIN f \ ks |-> f[x]]

\* StorageManager.saveMessage(message): messageStore.setItem(message.id, message).
\* (saveMessageSkipped leaves the store as it is.)
saveMessageSkipped(ms, message) == ms
saveMessage(ms, message) == Put(ms, message.id, message)

\* ------------------------------------------------ P2PNetworkManager, sends
\* BroadcastChannel.postMessage reaches every other context holding the
\* channel open; with the channel closed broadcastCrossTabMessage writes the
\* localStorage key, which no context with a BroadcastChannel listens to.
postMessage(ib, t, data) ==
  [u \in Tabs |->
     IF u # t /\ broadcastChannel[u]
     THEN Append(ib[u], [via |-> "broadcast", data |-> data]) ELSE ib[u]]

broadcastCrossTabMessage(ib, t, data) ==
  IF broadcastChannel[t] THEN postMessage(ib, t, data) ELSE ib

\* Room in the event queues of the tabs a post of n events by t reaches.
CanPost(t, n) ==
  \A u \in Tabs \ {t} : broadcastChannel[u] => Len(inbox[u]) + n <= MaxInbox

\* The payload announcePresence posts: "peer_announcement" in the
\* broadcast-channel and global-store managers, "user_join" in the WebRTC one.
Announcement(userId, publicKey) ==
  [type |-> IF variant = "webrtc" THEN "user_join" ELSE "peer_announcement",
   userId |-> userId, publicKey |-> publicKey]

NetworkMessageData(message) == [type |-> "network_message", message |-> message]

\* storeGlobalPresence(userData): own entry refreshed, entries older than the
\* peer max age pruned.
storeGlobalPresence(gp, userId) ==
  LET set == Put(gp, userId, [lastSeen |-> now, publicKey |-> PublicKeyOf(userId)])
  IN Drop(set, {p \in DOMAIN set : now - set[p].lastSeen > PeerMaxAge})

\* storeGlobalMessage(message): appended, entries stored more than five
\* minutes ago pruned.
GlobalEntry(message) ==
  [id |-> <<message.senderId, message.timestamp>>,
   message |-> message, recipientId |-> message.recipientId,
   senderId |-> message.senderId,
   timestamp |-> message.timestamp, stored |-> now]

\* A queue entry that is JSON null: reading a property of it throws TypeError.
NullEntry ==
  [id |-> <<"null", 0>>, message |-> <<>>, recipientId |-> NoId, senderId |-> NoId,
   timestamp |-> 0, stored |-> 0]

\* The position of the first null entry of the queue gm, 0 if it has none.
FirstNull(gm) ==
  IF \E i \in DOMAIN gm : gm[i] = NullEntry
  THEN CHOOSE i \in DOMAIN gm :
         gm[i] = NullEntry /\ \A j \in 1..(i - 1) : gm[j] # NullEntry
  ELSE 0

\* With a null entry in the queue the filter callback throws, the catch logs
\* and setItem is not reached.
storeGlobalMessage(gm, message) ==
  LET recent(m) == m.stored > now - GlobalQueueWindow
  IN IF FirstNull(gm) # 0 THEN gm
     ELSE SelectSeq(Append(gm, GlobalEntry(message)), recent)

\* --------------------------------------------- StorageManager, reads
NoContact == [id |-> NoId, publicKey |-> NoId, isBlocked |-> FALSE]

\* getContact(contactId): the stored contact, or null. (getContactAnyKey is the
\* lookup that would fall back on the key a peer announced.)
getContactAnyKey(t, contactId) ==
  IF contactId \in DOMAIN contacts[t] THEN contacts[t][contactId]
  ELSE [id |-> contactId, publicKey |-> PublicKeyOf(contactId), isBlocked |-> FALSE]
getContact(t, contactId) ==
  IF contactId \in DOMAIN contacts[t] THEN contacts[t][contactId] ELSE NoContact

getGroup(t, groupId) == groupId \in groups[t]

\* ------------------------------------------- P2PNetworkManager, receive
\* handleIncomingMessage: the own-echo filter in front of the handlers.
\* (isOwnMessageNever is the filter left out.)
isOwnMessageNever(t, message) == FALSE
isOwnMessage(t, message) == message.senderId = currentUser[t]

\* handleCrossTabMessage: the recipient filter of the cross-tab channel.
isForOtherRecipient(t, message) ==
  message.recipientId # NoId /\ message.recipientId # currentUser[t]

\* handleNetworkMessage from its call to its first await, for one handler:
\* the type switch and, for a direct message, the recipient check.
handleNetworkMessageStart(t, networkMessage) ==
  LET task(pc) == [env |-> networkMessage, pc |-> pc, rcvAt |-> now,
                   known |-> FALSE, publicKey |-> NoId, content |-> NoId]
  IN CASE networkMessage.type = "direct_message" ->
            IF networkMessage.recipientId # mmCurrentUser[t] THEN <<>>
            ELSE <<task("getContact")>>
       [] networkMessage.type = "group_message" -> <<task("getGroup")>>
       [] OTHER -> <<>>

RECURSIVE Repeat(_, _)
Repeat(sq, n) == IF n = 0 THEN <<>> ELSE sq \o Repeat(sq, n - 1)

\* The handlers handleIncomingMessage calls for a message.
HandlersFor(t, message) == IF isOwnMessage(t, message) THEN 0 ELSE messageHandlers[t]

NewTasks(t, message) ==
  Repeat(handleNetworkMessageStart(t, message), HandlersFor(t, message))

\* handleIncomingMessage(message): every registered handler is called.
handleIncomingMessage(t, message) ==
  /\ Len(tasks[t]) + Len(NewTasks(t, message)) <= MaxTasks
  /\ tasks' = [tasks EXCEPT ![t] = @ \o NewTasks(t, message)]
  /\ handed' = [handed EXCEPT ![t] =
        @ \cup {[message |-> message, called |-> HandlersFor(t, message)]}]

\* storePeerInfo(peerId, userData).
storePeerInfo(dp, peerId, publicKey) ==
  Put(dp, peerId, [lastSeen |-> now, publicKey |-> publicKey])

\* handlePeerDiscovery(peerId, userData) for every candidate of cand (a
\* function id -> announced public key) on the peer map ps and the stored
\* peers dp: a candidate already in the map changes nothing.
handlePeerDiscovery(ps, dp, cand) ==
  LET new == DOMAIN cand \ ps
  IN [peers |-> ps \cup new,
      stored |-> [p \in DOMAIN dp \cup new |->
                    IF p \in new THEN storePeerInfo(dp, p, cand[p])[p] ELSE dp[p]],
      events |-> {<<p, TRUE>> : p \in new}]

\* loadStoredPeers().
loadStoredPeers(ps, dp, me) ==
  LET fresh == {p \in DOMAIN dp : now - dp[p].lastSeen < PeerMaxAge /\ p # me}
  IN handlePeerDiscovery(ps, dp, [p \in fresh |-> dp[p].publicKey])

\* checkGlobalPeers(), the peer half.
checkGlobalPeersDiscovery(ps, dp, me) ==
  LET fresh == {p \in DOMAIN globalPeers :
                  /\ p # me
                  /\ now - globalPeers[p].lastSeen < GlobalPeerMaxAge
                  /\ p \notin ps}
  IN handlePeerDiscovery(ps, dp, [p \in fresh |-> globalPeers[p].publicKey])

\* checkGlobalPeers(), the message half: every queued entry for this user is
\* handed to handleIncomingMessage; each removal writes the snapshot read at
\* the start without that one entry, so the last write wins. The forEach over
\* the queue and the filter of a removal run inside one try: a null entry
\* throws in the forEach callback, or in the filter callback of the first
\* entry handled in front of it, and the catch ends the poll with the queue
\* as it was.
IsMine(m, me) ==
  /\ m # NullEntry
  /\ m.recipientId = me
  /\ m.senderId # me
  /\ now - m.timestamp < GlobalMessageMaxAge

GlobalMatches(me) ==
  LET mine(m) == IsMine(m, me)
      k == FirstNull(globalMessages)
      before == SelectSeq(SubSeq(globalMessages, 1, k - 1), mine)
  IN IF k = 0 THEN SelectSeq(globalMessages, mine)
     ELSE IF before = <<>> THEN <<>> ELSE <<before[1]>>

GlobalAfterPoll(me) ==
  LET matched == GlobalMatches(me)
      notLast(m) == m.id # matched[Len(matched)].id
  IN IF matched = <<>> \/ FirstNull(globalMessages) # 0 THEN globalMessages
     ELSE SelectSeq(globalMessages, notLast)

RECURSIVE TasksForAll(_, _)
TasksForAll(t, entries) ==
  IF entries = <<>> THEN <<>>
  ELSE NewTasks(t, Head(entries).message) \o TasksForAll(t, Tail(entries))

checkGlobalMessages(t, me) ==
  LET matched == GlobalMatches(me)
  IN /\ Len(tasks[t]) + Len(TasksForAll(t, matched)) <= MaxTasks
     /\ tasks' = [tasks EXCEPT ![t] = @ \o TasksForAll(t, matched)]
     /\ handed' = [handed EXCEPT ![t] = @ \cup
           {[message |-> matched[i].message,
             called |-> HandlersFor(t, matched[i].message)] : i \in DOMAIN matched}]
     /\ globalMessages' = GlobalAfterPoll(me)

\* An event whose data is null: data.type throws TypeError.
NullData == [type |-> "null"]

\* handleCrossTabMessage(data) of the BroadcastChannel onmessage callback,
\* which has no try around it.
handleCrossTabCases(t, data) ==
  IF data.type = "network_message"
  THEN /\ IF isForOtherRecipient(t, data.message) \/ data.message.senderId = currentUser[t]
          THEN UNCHANGED <<tasks, handed>>
          ELSE handleIncomingMessage(t, data.message)
       /\ statusEvents' = NoEvents
       /\ UNCHANGED <<peers, discoveredPeers, lastHeard>>
  ELSE IF data.type = "peer_announcement" /\ variant # "webrtc"
  THEN /\ IF data.userId # currentUser[t]
          THEN LET d == handlePeerDiscovery(peers[t], discoveredPeers,
                                            [p \in {data.userId} |-> data.publicKey])
               IN /\ peers' = [peers EXCEPT ![t] = d.peers]
                  /\ discoveredPeers' = d.stored
                  /\ statusEvents' = [by |-> "announcement", tab |-> t, events |-> d.events]
                  /\ lastHeard' = [lastHeard EXCEPT ![t] = Put(@, data.userId, now)]
          ELSE /\ statusEvents' = NoEvents
               /\ UNCHANGED <<peers, discoveredPeers, lastHeard>>
       /\ UNCHANGED <<tasks, handed>>
  ELSE /\ statusEvents' = NoEvents
       /\ UNCHANGED <<tasks, handed, peers, discoveredPeers, lastHeard>>

handleCrossTabMessage(t, data) ==
  IF data = NullData
  THEN /\ uncaught' = [uncaught EXCEPT ![t] = TRUE]
       /\ statusEvents' = NoEvents
       /\ UNCHANGED <<tasks, handed, peers, discoveredPeers, lastHeard>>
  ELSE /\ handleCrossTabCases(t, data)
       /\ UNCHANGED uncaught

\* ------------------------- P2PNetworkManager (WebRTC), signaling connection
\* The connection fields of tab t a call works on; opened counts the
\* BroadcastChannel objects it creates, scheduled lists the delays it passes
\* to setTimeout.
ConnStateOf(t) ==
  [attempts |-> reconnectAttempts[t], timers |-> reconnectTimers[t],
   fallbackOnly |-> fallbackOnly[t], opened |-> 0, scheduled |-> <<>>]

\* setupCrossTabCommunication(): this.broadcastChannel = new BroadcastChannel(..),
\* whatever this.broadcastChannel held.
setupCrossTabCommunication(cs) == [cs EXCEPT !.opened = @ + 1]

\* setupFallbackCommunication(). (setupFallbackNothing leaves the channel out.)
setupFallbackNothing(cs) == cs
setupFallbackCommunication(cs) == setupCrossTabCommunication(cs)

\* The delay of the retry scheduled with reconnectAttempts = k.
ReconnectDelay(k) ==
  IF ReconnectBaseDelay * 2^k < ReconnectMaxDelay
  THEN ReconnectBaseDelay * 2^k ELSE ReconnectMaxDelay

\* scheduleReconnect().
scheduleReconnect(cs) ==
  IF cs.attempts >= maxReconnectAttempts
  THEN [setupFallbackCommunication(cs) EXCEPT !.fallbackOnly = TRUE]
  ELSE [cs EXCEPT !.attempts = @ + 1,
                  !.timers = Append(@, ReconnectDelay(cs.attempts)),
                  !.scheduled = Append(@, ReconnectDelay(cs.attempts))]

\* connectToSignalingServer() with the outcome of the WebSocket (connected):
\* offline it returns at once; onopen resets reconnectAttempts; a failure or
\* the 10 s timeout clears the socket, schedules a retry and throws.
connectToSignalingServer(cs, online, socket, connected) ==
  IF ~online THEN [cs |-> cs, socket |-> socket, attempted |-> FALSE, threw |-> FALSE]
  ELSE IF connected
  THEN [cs |-> [cs EXCEPT !.attempts = 0], socket |-> TRUE,
        attempted |-> TRUE, threw |-> FALSE]
  ELSE [cs |-> scheduleReconnect(cs), socket |-> FALSE,
        attempted |-> TRUE, threw |-> TRUE]

\* The fields of tab t after a call that left the connection state cs.
SetConnState(t, cs) ==
  /\ reconnectAttempts' = [reconnectAttempts EXCEPT ![t] = cs.attempts]
  /\ reconnectTimers' = [reconnectTimers EXCEPT ![t] = cs.timers]
  /\ fallbackOnly' = [fallbackOnly EXCEPT ![t] = cs.fallbackOnly]
  /\ liveChannels' = [liveChannels EXCEPT ![t] = @ + cs.opened]
  /\ broadcastChannel' = [broadcastChannel EXCEPT ![t] = @ \/ cs.opened > 0]

ConnectLog(t, by, r, raised) ==
  [tab |-> t, by |-> by, attempted |-> r.attempted, failed |-> r.threw,
   scheduled |-> r.cs.scheduled, attemptsBefore |-> reconnectAttempts[t],
   fallbackOnly |-> fallbackOnly[t], raised |-> raised]

\* ------------------------------------------ P2PNetworkManager.initialize
\* Broadcast-channel manager: setupCrossTabCommunication, setupPeerDiscovery
\* (loadStoredPeers, announcePresence, the two intervals), announcePresence.
initializeBroadcast(t, user) ==
  LET d == loadStoredPeers(peers[t], discoveredPeers, user)
      a == Announcement(user, PublicKeyOf(user))
  IN /\ CanPost(t, 2)
     /\ peers' = [peers EXCEPT ![t] = d.peers]
     /\ discoveredPeers' = d.stored
     /\ statusEvents' = [by |-> "load", tab |-> t, events |-> d.events]
     /\ inbox' = postMessage(postMessage(inbox, t, a), t, a)
     /\ signalingServer' = signalingServer
     /\ broadcastChannel' = [broadcastChannel EXCEPT ![t] = TRUE]
     /\ liveChannels' = [liveChannels EXCEPT ![t] = @ + 1]
     /\ intervals' = [intervals EXCEPT ![t] = @ + 1]
     /\ UNCHANGED <<tasks, handed, globalPeers, globalMessages, connVars>>

\* Global-store manager: as above with setupGlobalPeerDiscovery (a first
\* checkGlobalPeers, the 2 s interval) in front and storeGlobalPresence in
\* announcePresence.
initializeGlobal(t, user) ==
  LET g == checkGlobalPeersDiscovery(peers[t], discoveredPeers, user)
      d == loadStoredPeers(g.peers, g.stored, user)
      a == Announcement(user, PublicKeyOf(user))
  IN /\ CanPost(t, 2)
     /\ checkGlobalMessages(t, user)
     /\ peers' = [peers EXCEPT ![t] = d.peers]
     /\ discoveredPeers' = d.stored
     /\ statusEvents' = [by |-> "load", tab |-> t, events |-> g.events \cup d.events]
     /\ globalPeers' = storeGlobalPresence(globalPeers, user)
     /\ inbox' = postMessage(postMessage(inbox, t, a), t, a)
     /\ signalingServer' = signalingServer
     /\ broadcastChannel' = [broadcastChannel EXCEPT ![t] = TRUE]
     /\ liveChannels' = [liveChannels EXCEPT ![t] = @ + 1]
     /\ intervals' = [intervals EXCEPT ![t] = @ + 1]
     /\ UNCHANGED connVars

\* WebRTC manager: connectToSignalingServer returns (connected, or offline)
\* and setupCrossTabCommunication and announcePresence follow, or it throws and
\* the catch runs setupFallbackCommunication; isInitialized is set either way.
initializeWebRTC(t, user, connected) ==
  LET r == connectToSignalingServer(ConnStateOf(t), isNetworkOnline[t],
                                    signalingServer[t], connected)
      cs == IF r.threw THEN setupFallbackCommunication(r.cs)
            ELSE setupCrossTabCommunication(r.cs)
  IN /\ CanPost(t, 1)
     /\ signalingServer' = [signalingServer EXCEPT ![t] = r.socket]
     /\ SetConnState(t, cs)
     /\ inbox' = IF r.threw
                 THEN inbox
                 ELSE postMessage(inbox, t, Announcement(user, PublicKeyOf(user)))
     /\ connLog' = ConnectLog(t, "initialize", [r EXCEPT !.cs = cs], FALSE)
     /\ nConnect' = nConnect + 1
     /\ statusEvents' = NoEvents
     /\ UNCHANGED <<peers, discoveredPeers, tasks, handed, globalPeers, globalMessages,
                    isNetworkOnline, intervals>>

initialize(t, user) ==
  /\ currentUser' = [currentUser EXCEPT ![t] = user]
  /\ isInitialized' = [isInitialized EXCEPT ![t] = TRUE]
  /\ CASE variant = "broadcast" -> initializeBroadcast(t, user)
       [] variant = "global" -> initializeGlobal(t, user)
       [] variant = "webrtc" -> \E connected \in BOOLEAN : initializeWebRTC(t, user, connected)

\* P2PNetworkManager.initialize(user) called on its own.
Initialize(t) ==
  /\ ~isInitialized[t]
  /\ initialize(t, UserOf(t))
  /\ UNCHANGED <<nShutdown, sendVars, dispatchVars,
                 variant, cryptoVars, libp2pVars, initVars, chatMessages, closedPeers, now, ticks, messageHandlers, dataChannels, mmCurrentUser,
                 messageListeners, contacts, groups, messages, accepted, notified,
                 lastHeard, nInject, nSend>>

\* --------------------------------------------------------- MessageManager
\* MessageManager.initialize(user): sets the user, initializes the network
\* (a no-op once initialized) and registers handleNetworkMessage, each call.
MMInitializeUser(t, user) ==
  /\ messageHandlers[t] < MaxHandlers
  /\ mmCurrentUser' = [mmCurrentUser EXCEPT ![t] = user]
  /\ IF isInitialized[t]
     THEN /\ statusEvents' = NoEvents
          /\ UNCHANGED <<connVars, liveChannels, intervals,
                         currentUser, broadcastChannel, isInitialized, peers,
                         discoveredPeers, inbox, signalingServer, tasks, handed,
                         globalPeers, globalMessages>>
     ELSE initialize(t, user)
  /\ messageHandlers' = [messageHandlers EXCEPT ![t] = @ + 1]
  /\ UNCHANGED <<nShutdown, sendVars, dispatchVars,
                 variant, cryptoVars, libp2pVars, initVars, chatMessages, closedPeers, now, ticks, dataChannels, messageListeners, contacts,
                 groups, messages, accepted, notified, lastHeard, nInject, nSend>>

\* MessageManager.initialize(user) with the user of the tab.
MMInitialize(t) == MMInitializeUser(t, UserOf(t))

\* MessageManager.onMessage(listener): the listener is pushed on
\* messageListeners; throws says whether it is one that throws when called.
OnMessageListener(t, throws) ==
  /\ messageListeners[t] < MaxListeners
  /\ messageListeners' = [messageListeners EXCEPT ![t] = @ + 1]
  /\ throwing' = [throwing EXCEPT ![t] =
                    IF throws THEN @ \cup {messageListeners[t] + 1} ELSE @]
  /\ statusEvents' = NoEvents
  /\ UNCHANGED <<connVars, lifeVars, sendVars, lastDispatch, uncaught,
                 variant, cryptoVars, libp2pVars, initVars, chatMessages, closedPeers, now, ticks, currentUser, isInitialized, broadcastChannel,
                 messageHandlers, peers, dataChannels, mmCurrentUser, contacts,
                 groups, messages, inbox, tasks, discoveredPeers, globalPeers,
                 globalMessages, handed, accepted, notified, lastHeard,
                 signalingServer, nInject, nSend>>

\* onMessage with a listener that returns normally.
OnMessage(t) == OnMessageListener(t, FALSE)

\* MessageManager.sendDirectMessage(recipientId, content) with
\* P2PNetworkManager.sendDirectMessage: contact and key lookup, encryption,
\* the sender's own copy saved, then the send over the variant's channels.
NetworkMessage(type, senderId, recipientId, groupId, content, timestamp) ==
  [type |-> type, senderId |-> senderId, recipientId |-> recipientId,
   groupId |-> groupId, content |-> content, timestamp |-> timestamp]

MessageId(senderId, timestamp) == <<senderId, timestamp>>

TabOf(userId) == {u \in Tabs : UserOf(u) = userId}

\* The channels of tab t that are open for a message to the peers in to.
OpenChannels(t, to) ==
  (IF to \cap dataChannels[t] # {} THEN {"datachannel"} ELSE {})
    \cup (IF signalingServer[t] THEN {"signaling"} ELSE {})
    \cup (IF broadcastChannel[t] THEN {"broadcast"} ELSE {})

Channels(dc, sig, bc) ==
  (IF dc THEN <<"datachannel">> ELSE <<>>) \o (IF sig THEN <<"signaling">> ELSE <<>>)
    \o (IF bc THEN <<"broadcast">> ELSE <<>>)

\* sendDirectMessage giving up when the first open channel throws.
sendDirectMessagePlanNoFailover(t, recipientId, dcThrows, sigThrows) ==
  IF recipientId \in dataChannels[t]
  THEN [tried |-> <<"datachannel">>,
        accepted |-> IF dcThrows THEN {} ELSE {"datachannel"}]
  ELSE IF signalingServer[t]
  THEN [tried |-> <<"signaling">>, accepted |-> IF sigThrows THEN {} ELSE {"signaling"}]
  ELSE [tried |-> <<"broadcast">>, accepted |-> {"broadcast"}]

\* P2PNetworkManager.sendDirectMessage: the channels it calls send on and the
\* one that takes the message. WebRTC manager: the recipient's open data
\* channel, on a throw or without one the open signaling socket, on a throw or
\* without one broadcastCrossTabMessage. The other managers:
\* broadcastCrossTabMessage, after storeGlobalMessage in the global-store one.
sendDirectMessagePlan(t, recipientId, dcThrows, sigThrows) ==
  LET dc == recipientId \in dataChannels[t]
      sig == signalingServer[t]
  IN CASE variant = "broadcast" -> [tried |-> <<"broadcast">>, accepted |-> {"broadcast"}]
       [] variant = "global" -> [tried |-> <<"globalstore", "broadcast">>,
                                 accepted |-> {"globalstore", "broadcast"}]
       [] variant = "webrtc" ->
            IF dc /\ ~dcThrows
            THEN [tried |-> <<"datachannel">>, accepted |-> {"datachannel"}]
            ELSE IF sig /\ ~sigThrows
            THEN [tried |-> Channels(dc, TRUE, FALSE), accepted |-> {"signaling"}]
            ELSE [tried |-> Channels(dc, sig, TRUE), accepted |-> {"broadcast"}]

\* P2PNetworkManager.sendGroupMessage. WebRTC manager: every open data channel;
\* if none took the message the open signaling socket and, whatever that did,
\* broadcastCrossTabMessage. The other managers: broadcastCrossTabMessage.
sendGroupMessagePlan(t, dcThrows, sigThrows) ==
  LET dc == dataChannels[t] # {}
      sig == signalingServer[t]
  IN IF variant # "webrtc"
     THEN [tried |-> <<"broadcast">>, accepted |-> {"broadcast"}]
     ELSE IF dc /\ ~dcThrows
     THEN [tried |-> <<"datachannel">>, accepted |-> {"datachannel"}]
     ELSE [tried |-> Channels(dc, sig, TRUE),
           accepted |-> {"broadcast"} \cup
                        (IF sig /\ ~sigThrows THEN {"signaling"} ELSE {})]

\* The events the accepting channels queue in the other contexts: a data
\* channel reaches the peer at its other end, the signaling server relays to
\* the sockets of the peers in to, the BroadcastChannel reaches every context.
Deliver(ib, t, message, to, taken) ==
  LET viaPeers ==
        [u \in Tabs |->
           IF "datachannel" \in taken /\ UserOf(u) \in to \cap dataChannels[t]
              /\ u # t /\ currentUser[t] \in dataChannels[u]
           THEN Append(ib[u], [via |-> "datachannel", data |-> message]) ELSE ib[u]]
      viaServer ==
        [u \in Tabs |->
           IF "signaling" \in taken /\ UserOf(u) \in to /\ u # t /\ signalingServer[u]
           THEN Append(viaPeers[u], [via |-> "signaling", data |-> message])
           ELSE viaPeers[u]]
  IN IF "broadcast" \in taken
     THEN broadcastCrossTabMessage(viaServer, t, NetworkMessageData(message))
     ELSE viaServer

\* The recipient of a direct message, the group of a group message.
Target(message) ==
  IF message.type = "direct_message" THEN message.recipientId ELSE message.groupId

\* P2PNetworkManager.sendDirectMessage / sendGroupMessage called with the
\* message saved or not by the caller: throws without a current user.
P2PSend(t, message, to, plan, saved) ==
  IF currentUser[t] = NoId
  THEN /\ lastSend' = [tab |-> t, kind |-> message.type, target |-> Target(message),
                       open |-> OpenChannels(t, to),
                       tried |-> <<>>, accepted |-> {},
                       error |-> "Network not initialized", saved |-> saved]
       /\ UNCHANGED <<inbox, globalMessages>>
  ELSE /\ lastSend' = [tab |-> t, kind |-> message.type, target |-> Target(message),
                       open |-> OpenChannels(t, to),
                       tried |-> plan.tried, accepted |-> plan.accepted,
                       error |-> "none", saved |-> saved]
       /\ inbox' = Deliver(inbox, t, message, to, plan.accepted)
       /\ globalMessages' = IF "globalstore" \in plan.accepted
                            THEN storeGlobalMessage(globalMessages, message)
                            ELSE globalMessages

\* A send that throws error in front of saveMessage. (SendFailedAfterSave is
\* the check made after the sender's copy is saved.)
SendFailedAfterSave(t, kind, target, error) ==
  /\ lastSend' = [tab |-> t, kind |-> kind, target |-> target, open |-> {},
                  tried |-> <<>>, accepted |-> {}, error |-> error, saved |-> TRUE]
  /\ messages' = [messages EXCEPT ![t] =
                    Put(@, MessageId(mmCurrentUser[t], now),
                        [id |-> MessageId(mmCurrentUser[t], now),
                         senderId |-> mmCurrentUser[t], recipientId |-> target,
                         groupId |-> NoId, content |-> "hello", timestamp |-> now])]
  /\ UNCHANGED <<inbox, globalMessages>>
SendFailed(t, kind, target, error) ==
  /\ lastSend' = [tab |-> t, kind |-> kind, target |-> target, open |-> {},
                  tried |-> <<>>, accepted |-> {}, error |-> error, saved |-> FALSE]
  /\ UNCHANGED <<messages, inbox, globalMessages>>

SendVarsUnchanged ==
  UNCHANGED <<connVars, lifeVars, keyPair, dispatchVars,
              variant, cryptoVars, libp2pVars, initVars, chatMessages, closedPeers, now, ticks, currentUser, isInitialized, broadcastChannel,
              messageHandlers, peers, dataChannels, mmCurrentUser,
              messageListeners, contacts, groups, tasks, discoveredPeers,
              globalPeers, handed, accepted, notified, lastHeard,
              signalingServer, nInject>>

\* nacl.box takes 32 byte keys: a string that is no key of a generated pair
\* makes encryptDirectMessage throw.
ValidKey(k) == KeyOwner(k) \in UserIds

\* MessageManager.sendDirectMessage(recipientId, content): the user, contact
\* and key pair checks, the encryption, the sender's copy saved, then
\* P2PNetworkManager.sendDirectMessage; dcThrows and sigThrows say whether send
\* throws on the data channel and on the signaling socket.
SendDirect(t, recipientId, content, dcThrows, sigThrows) ==
  LET contact == getContact(t, recipientId)
      encryptedContent ==
        encryptDirectMessage(content, contact.publicKey, PrivateKeyOf(mmCurrentUser[t]))
      message == NetworkMessage("direct_message", currentUser[t], recipientId,
                                NoId, encryptedContent, now)
      own == [id |-> MessageId(mmCurrentUser[t], now), senderId |-> mmCurrentUser[t],
              recipientId |-> recipientId, groupId |-> NoId, content |-> content,
              timestamp |-> now]
  IN /\ nSend < MaxSend
     /\ \A u \in Tabs \ {t} : Len(inbox[u]) < MaxInbox
     /\ nSend' = nSend + 1
     /\ CASE mmCurrentUser[t] = NoId -> SendFailed(t, "direct_message", recipientId, "User not initialized")
          [] mmCurrentUser[t] # NoId /\ contact = NoContact ->
               SendFailed(t, "direct_message", recipientId, "Contact not found")
          [] mmCurrentUser[t] # NoId /\ contact # NoContact /\ ~keyPair[t] ->
               SendFailed(t, "direct_message", recipientId, "Key pair not found")
          [] mmCurrentUser[t] # NoId /\ contact # NoContact /\ keyPair[t]
               /\ ~ValidKey(contact.publicKey) ->
               SendFailed(t, "direct_message", recipientId, "bad public key size")
          [] mmCurrentUser[t] # NoId /\ contact # NoContact /\ keyPair[t]
               /\ ValidKey(contact.publicKey) /\ encryptedContent.kind = "thrown" ->
               SendFailed(t, "direct_message", recipientId, encryptedContent.error)
          [] OTHER ->
               /\ messages' = [messages EXCEPT ![t] = saveMessage(@, own)]
               /\ P2PSend(t, message, {recipientId},
                          sendDirectMessagePlan(t, recipientId, dcThrows, sigThrows), TRUE)
     /\ statusEvents' = NoEvents
     /\ SendVarsUnchanged

\* MessageManager.sendGroupMessage(groupId, content).
SendGroup(t, groupId, content, dcThrows, sigThrows) ==
  LET encryptedContent == encryptGroupMessage(content, SymmetricKeyOf(groupId))
      message == NetworkMessage("group_message", currentUser[t], NoId, groupId,
                                encryptedContent, now)
      own == [id |-> MessageId(mmCurrentUser[t], now), senderId |-> mmCurrentUser[t],
              recipientId |-> NoId, groupId |-> groupId, content |-> content,
              timestamp |-> now]
  IN /\ nSend < MaxSend
     /\ \A u \in Tabs \ {t} : Len(inbox[u]) + 2 <= MaxInbox
     /\ nSend' = nSend + 1
     /\ CASE mmCurrentUser[t] = NoId -> SendFailed(t, "group_message", groupId, "User not initialized")
          [] mmCurrentUser[t] # NoId /\ ~getGroup(t, groupId) ->
               SendFailed(t, "group_message", groupId, "Group not found")
          [] mmCurrentUser[t] # NoId /\ getGroup(t, groupId)
               /\ encryptedContent.kind = "thrown" ->
               SendFailed(t, "group_message", groupId, encryptedContent.error)
          [] OTHER ->
               /\ messages' = [messages EXCEPT ![t] = saveMessage(@, own)]
               /\ P2PSend(t, message, UserIds \ {currentUser[t]},
                          sendGroupMessagePlan(t, dcThrows, sigThrows), TRUE)
     /\ statusEvents' = NoEvents
     /\ SendVarsUnchanged

\* A send by a user who is set up, holds the recipient as a contact with a
\* key of a generated pair, and whose channels do not throw.
SendDirectMessage(t, recipientId, content) ==
  /\ mmCurrentUser[t] # NoId
  /\ getContact(t, recipientId) # NoContact
  /\ ValidKey(getContact(t, recipientId).publicKey)
  /\ keyPair[t]
  /\ currentUser[t] # NoId
  /\ SendDirect(t, recipientId, content, FALSE, FALSE)

\* P2PNetworkManager.sendDirectMessage / sendGroupMessage called on the network
\* manager itself with content already encrypted.
NetSendDirectMessage(t, recipientId, content, dcThrows, sigThrows) ==
  /\ nSend < MaxSend
  /\ \A u \in Tabs \ {t} : Len(inbox[u]) < MaxInbox
  /\ nSend' = nSend + 1
  /\ P2PSend(t, NetworkMessage("direct_message", currentUser[t], recipientId, NoId,
                               content, now),
             {recipientId}, sendDirectMessagePlan(t, recipientId, dcThrows, sigThrows),
             FALSE)
  /\ statusEvents' = NoEvents
  /\ UNCHANGED messages
  /\ SendVarsUnchanged

NetSendGroupMessage(t, groupId, content, dcThrows, sigThrows) ==
  /\ nSend < MaxSend
  /\ \A u \in Tabs \ {t} : Len(inbox[u]) + 2 <= MaxInbox
  /\ nSend' = nSend + 1
  /\ P2PSend(t, NetworkMessage("group_message", currentUser[t], NoId, groupId,
                               content, now),
             UserIds \ {currentUser[t]}, sendGroupMessagePlan(t, dcThrows, sigThrows),
             FALSE)
  /\ statusEvents' = NoEvents
  /\ UNCHANGED messages
  /\ SendVarsUnchanged

\* ------------------------------------------------------- contact manager
BadContactId == "not-hex"
ValidContactIdFormat(id) == id \in UserIds   \* /^[a-fA-F0-9]{64}$/

\* handleAddContact with newContactId typed in: an existing or malformed id
\* is refused; the contact is saved with the id as its public key.
HandleAddContact(t, newContactId) ==
  /\ contacts' = IF newContactId \in DOMAIN contacts[t] \/ ~ValidContactIdFormat(newContactId)
                 THEN contacts
                 ELSE [contacts EXCEPT ![t] =
                         Put(@, newContactId, [id |-> newContactId,
                                               publicKey |-> newContactId,
                                               isBlocked |-> FALSE])]
  /\ statusEvents' = NoEvents
  /\ UNCHANGED <<connVars, lifeVars, sendVars, dispatchVars,
                 variant, cryptoVars, libp2pVars, initVars, chatMessages, closedPeers, now, ticks, currentUser, isInitialized, broadcastChannel,
                 messageHandlers, peers, dataChannels, mmCurrentUser,
                 messageListeners, groups, messages, inbox, tasks, discoveredPeers,
                 globalPeers, globalMessages, handed, accepted, notified, lastHeard,
                 signalingServer, nInject, nSend>>

\* handleBlockContact(contactId): toggles isBlocked and saves the contact.
HandleBlockContact(t, contactId) ==
  /\ contactId \in DOMAIN contacts[t]
  /\ contacts' = [contacts EXCEPT ![t][contactId].isBlocked = ~@]
  /\ statusEvents' = NoEvents
  /\ UNCHANGED <<connVars, lifeVars, sendVars, dispatchVars,
                 variant, cryptoVars, libp2pVars, initVars, chatMessages, closedPeers, now, ticks, currentUser, isInitialized, broadcastChannel,
                 messageHandlers, peers, dataChannels, mmCurrentUser,
                 messageListeners, groups, messages, inbox, tasks, discoveredPeers,
                 globalPeers, globalMessages, handed, accepted, notified, lastHeard,
                 signalingServer, nInject, nSend>>

\* StorageManager.clearAllData(): every store is cleared, the key store too.
ClearAllData(t) ==
  /\ contacts' = [contacts EXCEPT ![t] = [i \in {} |-> 0]]
  /\ groups' = [groups EXCEPT ![t] = {}]
  /\ messages' = [messages EXCEPT ![t] = [i \in {} |-> 0]]
  /\ keyPair' = [keyPair EXCEPT ![t] = FALSE]
  /\ statusEvents' = NoEvents
  /\ UNCHANGED <<connVars, lifeVars, lastSend, dispatchVars,
                 variant, cryptoVars, libp2pVars, initVars, chatMessages, closedPeers, now, ticks, currentUser, isInitialized, broadcastChannel,
                 messageHandlers, peers, dataChannels, mmCurrentUser,
                 messageListeners, inbox, tasks, discoveredPeers,
                 globalPeers, globalMessages, handed, accepted, notified, lastHeard,
                 signalingServer, nInject, nSend>>

\* ------------------------------------------------- payloads from outside
\* Envelopes a foreign context or remote peer sends towards the user u of a
\* tab, o being the user of the other tab.
SentAt == StartTime

\* The box a peer with a working NaCl implementation seals for a recipient.
PeerSealed(message, recipientPublicKey, senderPrivateKey) ==
  Seal("box", Uint8Array(message), BoxKey(recipientPublicKey, senderPrivateKey))
Other(u) == IF u = "A" THEN "B" ELSE "A"

ValidDirect(u) ==
  NetworkMessage("direct_message", Other(u), u, NoId,
    PeerSealed("hello", PublicKeyOf(u), PrivateKeyOf(Other(u))), SentAt)
OldDirect(u) ==
  NetworkMessage("direct_message", Other(u), u, NoId,
    PeerSealed("hello", PublicKeyOf(u), PrivateKeyOf(Other(u))), SentAt - OldAge)
UnknownDirect(u) ==
  NetworkMessage("direct_message", "C", u, NoId,
    PeerSealed("hello", PublicKeyOf(u), PrivateKeyOf("C")), SentAt)
MisaddressedDirect(u) ==
  NetworkMessage("direct_message", Other(u), "C", NoId,
    PeerSealed("hello", PublicKeyOf("C"), PrivateKeyOf(Other(u))), SentAt + 4)
OwnDirect(u) ==
  NetworkMessage("direct_message", u, u, NoId,
    PeerSealed("hello", PublicKeyOf(u), PrivateKeyOf(u)), SentAt)
MisaddressedGroup(u) ==
  NetworkMessage("group_message", Other(u), "C", "G",
    Seal("secretbox", Uint8Array("hello"), {SymmetricKeyOf("G")}), SentAt + 3)

\* A second direct message of the same sender, and a message to the group the
\* recipient is in, both sent after ValidDirect.
LaterDirect(u) ==
  NetworkMessage("direct_message", Other(u), u, NoId,
    PeerSealed("hello", PublicKeyOf(u), PrivateKeyOf(Other(u))), SentAt + 1)
ValidGroup(u) ==
  NetworkMessage("group_message", Other(u), NoId, "G",
    Seal("secretbox", Uint8Array("hello"), {SymmetricKeyOf("G")}), SentAt + 2)

\* Another direct message of the same sender with the timestamp of
\* ValidDirect: Date.now() of the sender returned the same millisecond.
SameMsDirect(u) ==
  NetworkMessage("direct_message", Other(u), u, NoId,
    PeerSealed("again", PublicKeyOf(u), PrivateKeyOf(Other(u))), SentAt)

\* ValidDirect sent later, with a byte of its ciphertext flipped on the way.
TamperedDirect(u) ==
  NetworkMessage("direct_message", Other(u), u, NoId,
    [PeerSealed("hello", PublicKeyOf(u), PrivateKeyOf(Other(u))) EXCEPT !.mac = "flipped"],
    SentAt + 5)

Envelopes(u) ==
  {ValidDirect(u), OldDirect(u), UnknownDirect(u), MisaddressedDirect(u),
   OwnDirect(u), MisaddressedGroup(u)}

ForeignMessages ==
  {NetworkMessageData(m) : m \in UNION {Envelopes(UserOf(t)) : t \in Receivers}}

\* The announcement of the third identity.
ForeignAnnouncements == {Announcement("C", "pkC")}

UserJoined(userId) == [type |-> "user_joined", userId |-> userId]

SignalingPayloads(u) == {m \in Envelopes(u) : m.type = "direct_message"}

\* A foreign same-origin context posts data on the BroadcastChannel.
ForeignPost(data) ==
  /\ nInject < MaxInject
  /\ \E u \in Tabs : broadcastChannel[u]
  /\ \A u \in Tabs : broadcastChannel[u] => Len(inbox[u]) < MaxInbox
  /\ inbox' = [u \in Tabs |->
                 IF broadcastChannel[u]
                 THEN Append(inbox[u], [via |-> "broadcast", data |-> data])
                 ELSE inbox[u]]
  /\ nInject' = nInject + 1
  /\ statusEvents' = NoEvents
  /\ UNCHANGED <<connVars, lifeVars, sendVars, dispatchVars,
                 variant, cryptoVars, libp2pVars, initVars, chatMessages, closedPeers, now, ticks, currentUser, isInitialized, broadcastChannel,
                 messageHandlers, peers, dataChannels, mmCurrentUser,
                 messageListeners, contacts, groups, messages, tasks,
                 discoveredPeers, globalPeers, globalMessages, handed, accepted,
                 notified, lastHeard, signalingServer, nSend>>

\* A foreign same-origin context writes localStorage["p2p-global-messages"]:
\* the queue with entries appended to it.
ForeignStore(entries) ==
  /\ nInject < MaxInject
  /\ globalMessages' = globalMessages \o entries
  /\ nInject' = nInject + 1
  /\ statusEvents' = NoEvents
  /\ UNCHANGED <<connVars, lifeVars, sendVars, dispatchVars,
                 variant, cryptoVars, libp2pVars, initVars, chatMessages, closedPeers, now, ticks, currentUser, isInitialized, broadcastChannel,
                 messageHandlers, peers, dataChannels, mmCurrentUser,
                 messageListeners, contacts, groups, messages, inbox, tasks,
                 discoveredPeers, globalPeers, handed, accepted,
                 notified, lastHeard, signalingServer, nSend>>

\* The signaling server pushes data to the tab's WebSocket.
ServerPush(t, data) ==
  /\ variant = "webrtc" /\ signalingServer[t]
  /\ nInject < MaxInject
  /\ Len(inbox[t]) < MaxInbox
  /\ inbox' = [inbox EXCEPT ![t] = Append(@, [via |-> "signaling", data |-> data])]
  /\ nInject' = nInject + 1
  /\ statusEvents' = NoEvents
  /\ UNCHANGED <<connVars, lifeVars, sendVars, dispatchVars,
                 variant, cryptoVars, libp2pVars, initVars, chatMessages, closedPeers, now, ticks, currentUser, isInitialized, broadcastChannel,
                 messageHandlers, peers, dataChannels, mmCurrentUser,
                 messageListeners, contacts, groups, messages, tasks,
                 discoveredPeers, globalPeers, globalMessages, handed, accepted,
                 notified, lastHeard, signalingServer, nSend>>

\* The signaling server tells the tab that another user joined.
PeerJoins(t, userId) ==
  /\ variant = "webrtc" /\ signalingServer[t]
  /\ userId \notin peers[t]
  /\ Len(inbox[t]) < MaxInbox
  /\ inbox' = [inbox EXCEPT ![t] =
                 Append(@, [via |-> "signaling", data |-> UserJoined(userId)])]
  /\ statusEvents' = NoEvents
  /\ UNCHANGED <<connVars, lifeVars, sendVars, dispatchVars,
                 variant, cryptoVars, libp2pVars, initVars, chatMessages, closedPeers, now, ticks, currentUser, isInitialized, broadcastChannel,
                 messageHandlers, peers, dataChannels, mmCurrentUser,
                 messageListeners, contacts, groups, messages, tasks,
                 discoveredPeers, globalPeers, globalMessages, handed, accepted,
                 notified, lastHeard, signalingServer, nInject, nSend>>

\* A remote peer sends message on its open data channel to the tab.
PeerSend(t, peerId, message) ==
  /\ variant = "webrtc" /\ peerId \in dataChannels[t]
  /\ nInject < MaxInject
  /\ Len(inbox[t]) < MaxInbox
  /\ inbox' = [inbox EXCEPT ![t] = Append(@, [via |-> "datachannel", data |-> message])]
  /\ nInject' = nInject + 1
  /\ statusEvents' = NoEvents
  /\ UNCHANGED <<connVars, lifeVars, sendVars, dispatchVars,
                 variant, cryptoVars, libp2pVars, initVars, chatMessages, closedPeers, now, ticks, currentUser, isInitialized, broadcastChannel,
                 messageHandlers, peers, dataChannels, mmCurrentUser,
                 messageListeners, contacts, groups, messages, tasks,
                 discoveredPeers, globalPeers, globalMessages, handed, accepted,
                 notified, lastHeard, signalingServer, nSend>>

\* ------------------------------------------------------ onmessage callbacks
\* broadcastChannel.onmessage: handleCrossTabMessage(event.data).
BroadcastChannelOnMessage(t) ==
  /\ inbox[t] # <<>> /\ Head(inbox[t]).via = "broadcast"
  /\ handleCrossTabMessage(t, Head(inbox[t]).data)
  /\ inbox' = [inbox EXCEPT ![t] = Tail(@)]
  /\ UNCHANGED <<connVars, lifeVars, sendVars, throwing, lastDispatch,
                 variant, cryptoVars, libp2pVars, initVars, chatMessages, closedPeers, now, ticks, currentUser, isInitialized, broadcastChannel,
                 messageHandlers, dataChannels, mmCurrentUser, messageListeners,
                 contacts, groups, messages, globalPeers, globalMessages, accepted,
                 notified, signalingServer, nInject, nSend>>

\* createPeerConnection(peerId, userData, shouldCreateOffer): a new entry of
\* the peer map, not connected yet.
createPeerConnection(ps, peerId) == ps \cup {peerId}

\* handleOffer(fromId, offer): the entry of the peer map for fromId, created
\* when there is none, takes the offer on the connection it holds. Whether an
\* entry whose connection has failed accepts the offer is the browser's
\* decision (renewed).
handleOffer(t, fromId, renewed) ==
  /\ peers' = [peers EXCEPT ![t] = createPeerConnection(@, fromId)]
  /\ closedPeers' = [closedPeers EXCEPT ![t] = IF renewed THEN @ \ {fromId} ELSE @]

\* signalingServer.onmessage: handleSignalingMessage(data), its "user_joined",
\* "user_list", "webrtc_offer" and "direct_message" cases.
handleSignalingMessage(t, data) ==
  IF currentUser[t] = NoId
  THEN UNCHANGED <<peers, closedPeers, tasks, handed>>
  ELSE IF data.type = "user_joined"
  THEN /\ peers' = [peers EXCEPT ![t] =
                      IF data.userId # currentUser[t]
                      THEN createPeerConnection(@, data.userId) ELSE @]
       /\ UNCHANGED <<closedPeers, tasks, handed>>
  ELSE IF data.type = "user_list"
  THEN /\ peers' = [peers EXCEPT ![t] =
                      @ \cup UNION {createPeerConnection(@, u) :
                                      u \in data.users \ {currentUser[t]}}]
       /\ UNCHANGED <<closedPeers, tasks, handed>>
  ELSE IF /\ data.type = "webrtc_offer"
          /\ data.targetId = currentUser[t]
          /\ data.fromId # currentUser[t]
  THEN /\ \E renewed \in BOOLEAN : handleOffer(t, data.fromId, renewed)
       /\ UNCHANGED <<tasks, handed>>
  ELSE IF /\ data.type = "direct_message"
          /\ data.recipientId = currentUser[t]
          /\ data.senderId # currentUser[t]
  THEN /\ handleIncomingMessage(t, data)
       /\ UNCHANGED <<peers, closedPeers>>
  ELSE UNCHANGED <<peers, closedPeers, tasks, handed>>

SignalingOnMessage(t) ==
  /\ inbox[t] # <<>> /\ Head(inbox[t]).via = "signaling"
  /\ handleSignalingMessage(t, Head(inbox[t]).data)
  /\ inbox' = [inbox EXCEPT ![t] = Tail(@)]
  /\ statusEvents' = NoEvents
  /\ UNCHANGED <<connVars, lifeVars, sendVars, dispatchVars,
                 variant, cryptoVars, libp2pVars, initVars, chatMessages, now, ticks, currentUser, isInitialized, broadcastChannel,
                 messageHandlers, dataChannels, mmCurrentUser, messageListeners,
                 contacts, groups, messages, discoveredPeers, globalPeers,
                 globalMessages, accepted, notified, lastHeard, signalingServer,
                 nInject, nSend>>

\* setupDataChannel, channel.onopen: the peer is connected.
DataChannelOnOpen(t, peerId) ==
  /\ variant = "webrtc"
  /\ peerId \in peers[t] \ (dataChannels[t] \cup closedPeers[t])
  /\ dataChannels' = [dataChannels EXCEPT ![t] = @ \cup {peerId}]
  /\ statusEvents' = [by |-> "datachannel", tab |-> t, events |-> {<<peerId, TRUE>>}]
  /\ UNCHANGED <<connVars, lifeVars, sendVars, dispatchVars,
                 variant, cryptoVars, libp2pVars, initVars, chatMessages, closedPeers, now, ticks, currentUser, isInitialized, broadcastChannel,
                 messageHandlers, peers, mmCurrentUser, messageListeners, contacts,
                 groups, messages, inbox, tasks, discoveredPeers, globalPeers,
                 globalMessages, handed, accepted, notified, lastHeard,
                 signalingServer, nInject, nSend>>

\* setupDataChannel, channel.onclose, and onconnectionstatechange with a state
\* other than "connected": isConnected = false and the status is notified. The
\* entry stays in the peer map.
DataChannelOnClose(t, peerId) ==
  /\ variant = "webrtc"
  /\ peerId \in peers[t] \ closedPeers[t]
  /\ dataChannels' = [dataChannels EXCEPT ![t] = @ \ {peerId}]
  /\ closedPeers' = [closedPeers EXCEPT ![t] = @ \cup {peerId}]
  /\ statusEvents' = [by |-> "datachannel", tab |-> t, events |-> {<<peerId, FALSE>>}]
  /\ UNCHANGED <<connVars, lifeVars, sendVars, dispatchVars,
                 variant, cryptoVars, libp2pVars, initVars, chatMessages, now, ticks, currentUser, isInitialized, broadcastChannel,
                 messageHandlers, peers, mmCurrentUser, messageListeners, contacts,
                 groups, messages, inbox, tasks, discoveredPeers, globalPeers,
                 globalMessages, handed, accepted, notified, lastHeard,
                 signalingServer, nInject, nSend>>

\* The signaling server announces a user to the tab again: a "user_joined"
\* event, the "user_list" sent on joining, or the "webrtc_offer" of the peer.
UserList(users) == [type |-> "user_list", users |-> users]
WebrtcOffer(fromId, targetId) ==
  [type |-> "webrtc_offer", fromId |-> fromId, targetId |-> targetId]

PeerEvents(t, userId) ==
  {UserJoined(userId), UserList({userId, UserOf(t)}), WebrtcOffer(userId, UserOf(t))}

PeerReturns(t, data) ==
  /\ variant = "webrtc" /\ signalingServer[t]
  /\ inbox[t] = <<>>
  /\ inbox' = [inbox EXCEPT ![t] = Append(@, [via |-> "signaling", data |-> data])]
  /\ statusEvents' = NoEvents
  /\ UNCHANGED <<connVars, lifeVars, sendVars, dispatchVars,
                 variant, cryptoVars, libp2pVars, initVars, chatMessages, closedPeers, now, ticks, currentUser, isInitialized, broadcastChannel,
                 messageHandlers, peers, dataChannels, mmCurrentUser,
                 messageListeners, contacts, groups, messages, tasks,
                 discoveredPeers, globalPeers, globalMessages, handed, accepted,
                 notified, lastHeard, signalingServer, nInject, nSend>>

\* setupDataChannel, channel.onmessage: handleIncomingMessage(message).
DataChannelOnMessage(t) ==
  /\ inbox[t] # <<>> /\ Head(inbox[t]).via = "datachannel"
  /\ handleIncomingMessage(t, Head(inbox[t]).data)
  /\ inbox' = [inbox EXCEPT ![t] = Tail(@)]
  /\ statusEvents' = NoEvents
  /\ UNCHANGED <<connVars, lifeVars, sendVars, dispatchVars,
                 variant, cryptoVars, libp2pVars, initVars, chatMessages, closedPeers, now, ticks, currentUser, isInitialized, broadcastChannel,
                 messageHandlers, peers, dataChannels, mmCurrentUser,
                 messageListeners, contacts, groups, messages, discoveredPeers,
                 globalPeers, globalMessages, accepted, notified, lastHeard,
                 signalingServer, nInject, nSend>>

\* The 2 s interval and the storage listener of setupGlobalPeerDiscovery.
CheckGlobalPeers(t) ==
  LET g == checkGlobalPeersDiscovery(peers[t], discoveredPeers, currentUser[t])
  IN /\ variant = "global" /\ intervals[t] > 0
     /\ checkGlobalMessages(t, currentUser[t])
     /\ peers' = [peers EXCEPT ![t] = g.peers]
     /\ discoveredPeers' = g.stored
     /\ statusEvents' = [by |-> "poll", tab |-> t, events |-> g.events]
     /\ UNCHANGED <<connVars, lifeVars, sendVars, dispatchVars,
                    variant, cryptoVars, libp2pVars, initVars, chatMessages, closedPeers, now, ticks, currentUser, isInitialized, broadcastChannel,
                    messageHandlers, dataChannels, mmCurrentUser, messageListeners,
                    contacts, groups, messages, inbox, globalPeers, accepted,
                    notified, lastHeard, signalingServer, nInject, nSend>>

\* ------------------------------- MessageManager.handleNetworkMessage, steps
RemoveAt(sq, i) == SubSeq(sq, 1, i - 1) \o SubSeq(sq, i + 1, Len(sq))

TaskVarsUnchanged ==
  UNCHANGED <<connVars, lifeVars, sendVars, throwing, uncaught,
              variant, cryptoVars, libp2pVars, initVars, chatMessages, closedPeers, now, ticks, currentUser, isInitialized, broadcastChannel,
              messageHandlers, peers, dataChannels, mmCurrentUser,
              messageListeners, contacts, groups, inbox, discoveredPeers,
              globalPeers, globalMessages, handed, lastHeard, signalingServer,
              nInject, nSend>>

\* await storage.getContact(senderId): an unknown sender ends the handler.
GetContact(t, i) ==
  LET task == tasks[t][i]
      contact == getContact(t, task.env.senderId)
  IN /\ task.pc = "getContact"
     /\ tasks' = [tasks EXCEPT ![t] =
          IF contact = NoContact THEN RemoveAt(@, i)
          ELSE [@ EXCEPT ![i] =
                  [task EXCEPT !.pc = "getKeyPair",
                               !.known = task.env.senderId \in DOMAIN contacts[t],
                               !.publicKey = contact.publicKey]]]
     /\ statusEvents' = NoEvents
     /\ UNCHANGED <<messages, accepted, notified>>
     /\ UNCHANGED lastDispatch
     /\ TaskVarsUnchanged

\* await storage.getKeyPair(), decryptDirectMessage: a missing key pair or a
\* failed decryption ends the handler.
GetKeyPair(t, i) ==
  LET task == tasks[t][i]
      decryptedContent ==
        decryptDirectMessage(task.env.content, task.publicKey,
                             PrivateKeyOf(UserOf(t)))
  IN /\ task.pc = "getKeyPair"
     /\ tasks' = [tasks EXCEPT ![t] =
          IF ~keyPair[t] \/ decryptedContent \in DecryptErrors THEN RemoveAt(@, i)
          ELSE [@ EXCEPT ![i] = [task EXCEPT !.pc = "saveMessage",
                                              !.content = decryptedContent]]]
     /\ statusEvents' = NoEvents
     /\ UNCHANGED <<messages, accepted, notified>>
     /\ UNCHANGED lastDispatch
     /\ TaskVarsUnchanged

\* await storage.getGroup(groupId), decryptGroupMessage.
GetGroup(t, i) ==
  LET task == tasks[t][i]
      decryptedContent ==
        decryptGroupMessage(task.env.content, SymmetricKeyOf(task.env.groupId))
  IN /\ task.pc = "getGroup"
     /\ tasks' = [tasks EXCEPT ![t] =
          IF ~getGroup(t, task.env.groupId) \/ decryptedContent \in DecryptErrors
          THEN RemoveAt(@, i)
          ELSE [@ EXCEPT ![i] = [task EXCEPT !.pc = "saveMessage",
                                              !.content = decryptedContent]]]
     /\ statusEvents' = NoEvents
     /\ UNCHANGED <<messages, accepted, notified>>
     /\ UNCHANGED lastDispatch
     /\ TaskVarsUnchanged

\* await storage.saveMessage(message): messageStore.setItem(message.id, message).
SaveMessage(t, i) ==
  LET task == tasks[t][i]
      direct == task.env.type = "direct_message"
      message == [id |-> MessageId(task.env.senderId, task.env.timestamp),
                  senderId |-> task.env.senderId,
                  recipientId |-> IF direct THEN mmCurrentUser[t] ELSE NoId,
                  groupId |-> IF direct THEN NoId ELSE task.env.groupId,
                  content |-> task.content,
                  timestamp |-> task.env.timestamp]
  IN /\ task.pc = "saveMessage"
     /\ messages' = [messages EXCEPT ![t] = saveMessage(@, message)]
     /\ accepted' = [accepted EXCEPT ![t] = @ \cup
           {[env |-> task.env, message |-> message, rcvAt |-> task.rcvAt,
             known |-> task.known, user |-> mmCurrentUser[t],
             blocked |-> getContact(t, task.env.senderId).isBlocked]}]
     /\ tasks' = [tasks EXCEPT ![t][i].pc = "notify"]
     /\ statusEvents' = NoEvents
     /\ UNCHANGED notified
     /\ UNCHANGED lastDispatch
     /\ TaskVarsUnchanged

\* Array.prototype.forEach over n listeners: the positions in call order.
\* (ForEachReversed is the opposite order.)
ForEachReversed(n) == [i \in 1..n |-> n + 1 - i]
ForEach(n) == [i \in 1..n |-> i]

\* The listeners forEach calls before an exception leaves it: up to and
\* including the first one that throws.
CalledListeners(t) ==
  LET order == ForEach(messageListeners[t])
      stops == {i \in DOMAIN order : order[i] \in throwing[t]}
      last == IF stops = {} THEN Len(order)
              ELSE CHOOSE i \in stops : \A k \in stops : i <= k
  IN SubSeq(order, 1, last)

\* messageListeners.forEach((listener) => listener(message)); an exception of
\* a listener ends the forEach and is logged by the catch of the handler.
NotifyListeners(t, i) ==
  LET task == tasks[t][i]
      id == MessageId(task.env.senderId, task.env.timestamp)
      called == CalledListeners(t)
      keys == {<<id, called[k]>> : k \in DOMAIN called}
  IN /\ task.pc = "notify"
     /\ notified' = [notified EXCEPT ![t] =
          [key \in DOMAIN @ \cup keys |->
             IF key \in keys
             THEN (IF key \in DOMAIN @ THEN @[key] ELSE 0) + 1
             ELSE @[key]]]
     /\ lastDispatch' = [tab |-> t, id |-> id, stored |-> id \in DOMAIN messages[t],
                         registered |-> messageListeners[t], called |-> called,
                         threw |-> Len(called) > 0 /\ called[Len(called)] \in throwing[t]]
     /\ tasks' = [tasks EXCEPT ![t] = RemoveAt(@, i)]
     /\ statusEvents' = NoEvents
     /\ UNCHANGED <<messages, accepted>>
     /\ TaskVarsUnchanged

\* ------------------------------------------------------------------ timers
\* The 5 s interval of setupPeerDiscovery: announcePresence().
AnnounceTimer(t) ==
  /\ variant # "webrtc" /\ intervals[t] > 0
  /\ isInitialized[t] /\ currentUser[t] # NoId
  /\ CanPost(t, 1)
  /\ inbox' = broadcastCrossTabMessage(inbox, t,
                 Announcement(currentUser[t], PublicKeyOf(currentUser[t])))
  /\ globalPeers' = IF variant = "global"
                    THEN storeGlobalPresence(globalPeers, currentUser[t])
                    ELSE globalPeers
  /\ statusEvents' = NoEvents
  /\ UNCHANGED <<connVars, lifeVars, sendVars, dispatchVars,
                 variant, cryptoVars, libp2pVars, initVars, chatMessages, closedPeers, now, ticks, currentUser, isInitialized, broadcastChannel,
                 messageHandlers, peers, dataChannels, mmCurrentUser,
                 messageListeners, contacts, groups, messages, tasks,
                 discoveredPeers, globalMessages, handed, accepted, notified,
                 lastHeard, signalingServer, nInject, nSend>>

\* The 10 s interval of setupPeerDiscovery: cleanupOldPeers().
StalePeers(dp) == {p \in DOMAIN dp : now - dp[p].lastSeen > PeerMaxAge}

CleanupOldPeers(t) ==
  /\ variant # "webrtc" /\ intervals[t] > 0
  /\ discoveredPeers' = Drop(discoveredPeers, StalePeers(discoveredPeers))
  /\ peers' = [peers EXCEPT ![t] = @ \ StalePeers(discoveredPeers)]
  /\ statusEvents' = [by |-> "cleanup", tab |-> t,
                      events |-> {<<p, FALSE>> : p \in StalePeers(discoveredPeers)}]
  /\ UNCHANGED <<connVars, lifeVars, sendVars, dispatchVars,
                 variant, cryptoVars, libp2pVars, initVars, chatMessages, closedPeers, now, ticks, currentUser, isInitialized, broadcastChannel,
                 messageHandlers, dataChannels, mmCurrentUser, messageListeners,
                 contacts, groups, messages, inbox, tasks, globalPeers,
                 globalMessages, handed, accepted, notified, lastHeard,
                 signalingServer, nInject, nSend>>

\* ------------------------------------- connection events (WebRTC manager)
\* window "offline" listener of the constructor.
OfflineEvent(t) ==
  /\ variant = "webrtc" /\ isNetworkOnline[t]
  /\ isNetworkOnline' = [isNetworkOnline EXCEPT ![t] = FALSE]
  /\ statusEvents' = NoEvents
  /\ UNCHANGED <<reconnectAttempts, reconnectTimers, fallbackOnly, connLog, nConnect,
                 lifeVars, sendVars, dispatchVars,
                 variant, cryptoVars, libp2pVars, initVars, chatMessages, closedPeers, now, ticks, currentUser, isInitialized, broadcastChannel,
                 messageHandlers, peers, dataChannels, mmCurrentUser,
                 messageListeners, contacts, groups, messages, inbox, tasks,
                 discoveredPeers, globalPeers, globalMessages, handed, accepted,
                 notified, lastHeard, signalingServer, nInject, nSend>>

\* window "online" listener of the constructor: isNetworkOnline = true and
\* connectToSignalingServer(), its promise neither awaited nor caught, so a
\* throw is raised as an unhandled rejection.
OnlineEvent(t, connected) ==
  LET r == connectToSignalingServer(ConnStateOf(t), TRUE, signalingServer[t], connected)
  IN /\ variant = "webrtc" /\ ~isNetworkOnline[t]
     /\ nConnect < MaxConnects
     /\ isNetworkOnline' = [isNetworkOnline EXCEPT ![t] = TRUE]
     /\ signalingServer' = [signalingServer EXCEPT ![t] = r.socket]
     /\ SetConnState(t, r.cs)
     /\ connLog' = ConnectLog(t, "online", r, r.threw)
     /\ nConnect' = nConnect + 1
     /\ statusEvents' = NoEvents
     /\ UNCHANGED <<intervals, nShutdown, sendVars, dispatchVars,
                    variant, cryptoVars, libp2pVars, initVars, chatMessages, closedPeers, now, ticks, currentUser, isInitialized,
                    messageHandlers, peers, dataChannels, mmCurrentUser,
                    messageListeners, contacts, groups, messages, inbox, tasks,
                    discoveredPeers, globalPeers, globalMessages, handed, accepted,
                    notified, lastHeard, nInject, nSend>>

\* The setTimeout callback of scheduleReconnect, for the timer set first:
\* online and initialized it calls connectToSignalingServer(), and the catch
\* of a throw calls scheduleReconnect() once more.
ReconnectTimer(t, connected) ==
  LET fired == [ConnStateOf(t) EXCEPT !.timers = Tail(@)]
      r == connectToSignalingServer(fired, TRUE, signalingServer[t], connected)
      cs == IF r.threw THEN scheduleReconnect(r.cs) ELSE r.cs
  IN /\ variant = "webrtc" /\ reconnectTimers[t] # <<>>
     /\ IF isNetworkOnline[t] /\ isInitialized[t]
        THEN /\ nConnect < MaxConnects
             /\ signalingServer' = [signalingServer EXCEPT ![t] = r.socket]
             /\ SetConnState(t, cs)
             /\ connLog' = ConnectLog(t, "timer", [r EXCEPT !.cs = cs], FALSE)
             /\ nConnect' = nConnect + 1
        ELSE /\ connected
             /\ reconnectTimers' = [reconnectTimers EXCEPT ![t] = Tail(@)]
             /\ UNCHANGED <<signalingServer, reconnectAttempts, fallbackOnly,
                            liveChannels, broadcastChannel, connLog, nConnect>>
     /\ statusEvents' = NoEvents
     /\ UNCHANGED <<isNetworkOnline, intervals, nShutdown, sendVars, dispatchVars,
                    variant, cryptoVars, libp2pVars, initVars, chatMessages, closedPeers, now, ticks, currentUser, isInitialized,
                    messageHandlers, peers, dataChannels, mmCurrentUser,
                    messageListeners, contacts, groups, messages, inbox, tasks,
                    discoveredPeers, globalPeers, globalMessages, handed, accepted,
                    notified, lastHeard, nInject, nSend>>

\* signalingServer.onclose of setupSignalingHandlers: the socket is dropped
\* and scheduleReconnect() runs.
SignalingOnClose(t) ==
  /\ variant = "webrtc" /\ signalingServer[t]
  /\ signalingServer' = [signalingServer EXCEPT ![t] = FALSE]
  /\ SetConnState(t, scheduleReconnect(ConnStateOf(t)))
  /\ statusEvents' = NoEvents
  /\ UNCHANGED <<isNetworkOnline, connLog, nConnect, intervals, nShutdown,
                 sendVars, dispatchVars,
                 variant, cryptoVars, libp2pVars, initVars, chatMessages, closedPeers, now, ticks, currentUser, isInitialized,
                 messageHandlers, peers, dataChannels, mmCurrentUser,
                 messageListeners, contacts, groups, messages, inbox, tasks,
                 discoveredPeers, globalPeers, globalMessages, handed, accepted,
                 notified, lastHeard, nInject, nSend>>

\* ---------------------------------------------- P2PNetworkManager.shutdown
\* shutdown(): the BroadcastChannel the field holds is closed, the peers, data
\* channels and the signaling socket are closed, isInitialized = false. No
\* clearInterval or clearTimeout is called and currentUser is kept. The events
\* queued for the closed channels are not delivered any more.
Shutdown(t) ==
  LET left == liveChannels[t] - (IF broadcastChannel[t] THEN 1 ELSE 0)
      isBroadcast(e) == e.via = "broadcast"
  IN /\ nShutdown < MaxShutdowns
     /\ broadcastChannel' = [broadcastChannel EXCEPT ![t] = FALSE]
     /\ liveChannels' = [liveChannels EXCEPT ![t] = left]
     /\ peers' = [peers EXCEPT ![t] = {}]
     /\ dataChannels' = [dataChannels EXCEPT ![t] = {}]
     /\ signalingServer' = [signalingServer EXCEPT ![t] = FALSE]
     /\ isInitialized' = [isInitialized EXCEPT ![t] = FALSE]
     /\ inbox' = [inbox EXCEPT ![t] = IF left > 0 THEN SelectSeq(@, isBroadcast) ELSE <<>>]
     /\ nShutdown' = nShutdown + 1
     /\ statusEvents' = NoEvents
     /\ closedPeers' = [closedPeers EXCEPT ![t] = {}]
     /\ UNCHANGED <<connVars, intervals, sendVars, dispatchVars,
                    variant, cryptoVars, libp2pVars, initVars, chatMessages, now, ticks, currentUser, messageHandlers, mmCurrentUser,
                    messageListeners, contacts, groups, messages, tasks,
                    discoveredPeers, globalPeers, globalMessages, handed, accepted,
                    notified, lastHeard, nInject, nSend>>

\* Date.now() advances by one step.
Tick ==
  /\ ticks < MaxTicks
  /\ now' = now + TickMs
  /\ ticks' = ticks + 1
  /\ statusEvents' = NoEvents
  /\ UNCHANGED <<connVars, lifeVars, sendVars, dispatchVars,
                 variant, cryptoVars, libp2pVars, initVars, chatMessages, closedPeers, currentUser, isInitialized, broadcastChannel,
                 messageHandlers, peers, dataChannels, mmCurrentUser,
                 messageListeners, contacts, groups, messages, inbox, tasks,
                 discoveredPeers, globalPeers, globalMessages, handed, accepted,
                 notified, lastHeard, signalingServer, nInject, nSend>>

\* No event is queued and no handler is suspended, in any tab.
\* ------------------------------------------- CryptoManager, called on its own
CryptoVarsUnchanged ==
  UNCHANGED <<connVars, lifeVars, sendVars, dispatchVars, cryptoLib, libp2pVars,
              initVars, chatMessages, closedPeers,
              variant, now, ticks, currentUser, isInitialized, broadcastChannel,
              messageHandlers, peers, dataChannels, mmCurrentUser,
              messageListeners, contacts, groups, messages, inbox, tasks,
              discoveredPeers, globalPeers, globalMessages, handed, accepted,
              notified, statusEvents, lastHeard, signalingServer, nInject, nSend>>

\* encryptDirectMessage(message, recipient's public key, sender's private key).
CallEncryptDirect(message, sender, recipient) ==
  /\ cryptoCall' = [NoCall EXCEPT
        !.fn = "encryptDirectMessage", !.by = "encryptDirectMessage",
        !.plaintext = message, !.sender = sender, !.recipient = recipient,
        !.sealed = encryptDirectMessage(message, PublicKeyOf(recipient),
                                        PrivateKeyOf(sender))]
  /\ CryptoVarsUnchanged

\* encryptGroupMessage(message, the group's symmetric key).
CallEncryptGroup(message, groupId) ==
  /\ cryptoCall' = [NoCall EXCEPT
        !.fn = "encryptGroupMessage", !.by = "encryptGroupMessage",
        !.plaintext = message, !.recipient = groupId,
        !.sealed = encryptGroupMessage(message, SymmetricKeyOf(groupId))]
  /\ CryptoVarsUnchanged

\* encryptEphemeralMessage(message, keys, expirationTime).
CallEncryptEphemeral(message, sender, recipient, expirationTime) ==
  /\ cryptoCall' = [NoCall EXCEPT
        !.fn = "encryptEphemeralMessage", !.by = "encryptEphemeralMessage",
        !.plaintext = message, !.sender = sender, !.recipient = recipient,
        !.expiresAt = expirationTime,
        !.sealed = encryptEphemeralMessage(message, PublicKeyOf(recipient),
                                           PrivateKeyOf(sender), expirationTime)]
  /\ CryptoVarsUnchanged

\* A peer with a working NaCl implementation seals a text for the recipient.
PeerSeals(text, sender, recipient) ==
  /\ cryptoCall' = [NoCall EXCEPT
        !.fn = "peer", !.by = "peer", !.plaintext = text, !.sender = sender,
        !.recipient = recipient,
        !.sealed = PeerSealed(text, PublicKeyOf(recipient), PrivateKeyOf(sender))]
  /\ CryptoVarsUnchanged

\* The ciphertext is changed on its way: a byte flipped, or the end cut off.
Tamper(mode) ==
  /\ cryptoCall.sealed.kind \in {"box", "secretbox"}
  /\ cryptoCall.sealed.mac = "valid"
  /\ cryptoCall.fn \notin {"none", "decryptDirectMessage", "decryptGroupMessage",
                           "decryptEphemeralMessage"}
  /\ cryptoCall' = [cryptoCall EXCEPT !.fn = "tamper", !.sealed.mac = mode]
  /\ CryptoVarsUnchanged

\* decryptDirectMessage(sealed, from's public key, opener's private key).
CallDecryptDirect(from, opener) ==
  /\ cryptoCall.sealed.kind \in {"box", "secretbox"}
  /\ cryptoCall.fn \notin {"decryptDirectMessage", "decryptGroupMessage",
                           "decryptEphemeralMessage"}
  /\ cryptoCall' = [cryptoCall EXCEPT
        !.fn = "decryptDirectMessage", !.from = from, !.opener = opener,
        !.opened = decryptDirectMessage(cryptoCall.sealed, PublicKeyOf(from),
                                        PrivateKeyOf(opener))]
  /\ CryptoVarsUnchanged

\* decryptGroupMessage(sealed, the symmetric key of groupId).
CallDecryptGroup(groupId) ==
  /\ cryptoCall.sealed.kind \in {"box", "secretbox"}
  /\ cryptoCall.fn \notin {"decryptDirectMessage", "decryptGroupMessage",
                           "decryptEphemeralMessage"}
  /\ cryptoCall' = [cryptoCall EXCEPT
        !.fn = "decryptGroupMessage", !.opener = groupId,
        !.opened = decryptGroupMessage(cryptoCall.sealed, SymmetricKeyOf(groupId))]
  /\ CryptoVarsUnchanged

\* decryptEphemeralMessage(sealed, from's public key, opener's private key).
CallDecryptEphemeral(from, opener) ==
  /\ cryptoCall.sealed.kind \in {"box", "secretbox"}
  /\ cryptoCall.fn \notin {"decryptDirectMessage", "decryptGroupMessage",
                           "decryptEphemeralMessage"}
  /\ cryptoCall' = [cryptoCall EXCEPT
        !.fn = "decryptEphemeralMessage", !.from = from, !.opener = opener,
        !.ephemeral = decryptEphemeralMessage(cryptoCall.sealed, PublicKeyOf(from),
                                              PrivateKeyOf(opener), now)]
  /\ CryptoVarsUnchanged

Quiescent == \A t \in Tabs : inbox[t] = <<>> /\ tasks[t] = <<>>

\* The message path: initialization, contacts, sends, every receive channel
\* and the steps of handleNetworkMessage, with the clock standing still. The
\* users and the outside world act one stimulus at a time: the next one comes
\* when the tabs have handled the last; callbacks, handler steps and the poll
\* interleave freely.
NextMsg ==
  \/ Quiescent /\ \E t \in Tabs : MMInitialize(t)
  \/ Quiescent /\ \E t \in Receivers : messageListeners[t] < MsgListeners /\ OnMessage(t)
  \/ Quiescent /\ \E t \in Senders : \E c \in DOMAIN contacts[t] :
       SendDirectMessage(t, c, "hello")
  \/ Quiescent /\ \E t \in Receivers : \E id \in {"C", BadContactId} :
       HandleAddContact(t, id)
  \/ Quiescent /\ \E t \in Receivers : HandleBlockContact(t, OtherUser(t))
  \/ Quiescent /\ \E data \in ForeignMessages : ForeignPost(data)
  \/ Quiescent /\ \E t \in Receivers : \E data \in SignalingPayloads(UserOf(t)) :
       ServerPush(t, data)
  \/ Quiescent /\ \E t \in Receivers : PeerJoins(t, "C")
  \/ Quiescent /\ \E t \in Receivers : \E p \in dataChannels[t] :
       \E m \in Envelopes(UserOf(t)) : PeerSend(t, p, m)
  \/ \E t \in Tabs : BroadcastChannelOnMessage(t)
  \/ \E t \in Tabs : SignalingOnMessage(t)
  \/ \E t \in Tabs : \E p \in peers[t] : DataChannelOnOpen(t, p)
  \/ \E t \in Tabs : DataChannelOnMessage(t)
  \/ \E t \in Tabs : CheckGlobalPeers(t)
  \/ \E t \in Tabs : \E i \in DOMAIN tasks[t] : GetContact(t, i)
  \/ \E t \in Tabs : \E i \in DOMAIN tasks[t] : GetKeyPair(t, i)
  \/ \E t \in Tabs : \E i \in DOMAIN tasks[t] : GetGroup(t, i)
  \/ \E t \in Tabs : \E i \in DOMAIN tasks[t] : SaveMessage(t, i)
  \/ \E t \in Tabs : \E i \in DOMAIN tasks[t] : NotifyListeners(t, i)

\* Peer discovery and expiry in the broadcast-channel manager: initialization,
\* announcements, the timers and the clock. A clock step is long against the
\* handling of a queued event, so the queues are empty when it is taken.
NextPeer ==
  \/ \E t \in Tabs : Initialize(t)
  \/ \E data \in ForeignAnnouncements : ForeignPost(data)
  \/ \E t \in Tabs : BroadcastChannelOnMessage(t)
  \/ \E t \in Tabs : AnnounceTimer(t)
  \/ \E t \in Tabs : CleanupOldPeers(t)
  \/ Quiescent /\ Tick

\* Sending and dispatch in the broadcast-channel manager: the sender's stores
\* may be cleared and refilled, every send precondition can fail, the receiver
\* registers listeners, some of which throw. Another tab of the sender may post
\* a group message while the last message is still being handled.
NextDispatch ==
  \/ Quiescent /\ \E t \in Tabs : MMInitialize(t)
  \/ Quiescent /\ \E t \in Receivers : \E throws \in BOOLEAN : OnMessageListener(t, throws)
  \/ Quiescent /\ \E t \in Senders : ClearAllData(t)
  \/ Quiescent /\ \E t \in Senders : HandleAddContact(t, "C")
  \/ Quiescent /\ \E t \in Senders : \E c \in UserIds \ {UserOf(t)} :
       SendDirect(t, c, "hello", FALSE, FALSE)
  \/ Quiescent /\ \E t \in Senders : \E g \in GroupIds :
       SendGroup(t, g, "hello", FALSE, FALSE)
  \/ \E t \in Receivers : ForeignPost(NetworkMessageData(ValidGroup(UserOf(t))))
  \/ \E t \in Tabs : BroadcastChannelOnMessage(t)
  \/ \E t \in Tabs : \E i \in DOMAIN tasks[t] : GetContact(t, i)
  \/ \E t \in Tabs : \E i \in DOMAIN tasks[t] : GetKeyPair(t, i)
  \/ \E t \in Tabs : \E i \in DOMAIN tasks[t] : GetGroup(t, i)
  \/ \E t \in Tabs : \E i \in DOMAIN tasks[t] : SaveMessage(t, i)
  \/ \E t \in Tabs : \E i \in DOMAIN tasks[t] : NotifyListeners(t, i)

\* The signaling connection and the channels of the WebRTC manager: a tab
\* goes offline and online, its connection attempts fail or succeed, its
\* socket closes, it shuts down and initializes again.
NextNet ==
  \/ \E t \in Senders : Initialize(t)
  \/ \E t \in Senders : OfflineEvent(t)
  \/ \E t \in Senders : \E connected \in BOOLEAN : OnlineEvent(t, connected)
  \/ \E t \in Senders : \E connected \in BOOLEAN : ReconnectTimer(t, connected)
  \/ \E t \in Senders : SignalingOnClose(t)
  \/ \E t \in Senders : isInitialized[t] /\ Shutdown(t)

\* The sends of the WebRTC manager: both tabs start, connected to the
\* signaling server or not, peers join and data channels open, a socket
\* closes, and the sender sends over whatever channels are open, some of which
\* throw.
NextSend ==
  \/ \E t \in Tabs : Initialize(t)
  \/ Quiescent /\ \E t \in Tabs : PeerJoins(t, OtherUser(t))
  \/ \E t \in Tabs : SignalingOnClose(t)
  \/ Quiescent /\ \E t \in Senders : \E dcThrows, sigThrows \in BOOLEAN :
       NetSendDirectMessage(t, OtherUser(t), "hello", dcThrows, sigThrows)
  \/ Quiescent /\ \E t \in Senders : \E g \in GroupIds : \E dcThrows, sigThrows \in BOOLEAN :
       NetSendGroupMessage(t, g, "hello", dcThrows, sigThrows)
  \/ \E t \in Tabs : BroadcastChannelOnMessage(t)
  \/ \E t \in Tabs : SignalingOnMessage(t)
  \/ \E t \in Tabs : \E p \in peers[t] : DataChannelOnOpen(t, p)
  \/ \E t \in Tabs : DataChannelOnMessage(t)

\* Start and stop of the broadcast-channel and global-store managers: the
\* tabs initialize, shut down and initialize again while the intervals of
\* peer discovery run and the clock advances.
NextLife ==
  \/ \E t \in Tabs : Initialize(t)
  \/ \E t \in Receivers : isInitialized[t] /\ Shutdown(t)
  \/ \E data \in ForeignAnnouncements : ForeignPost(data)
  \/ \E t \in Tabs : BroadcastChannelOnMessage(t)
  \/ \E t \in Tabs : AnnounceTimer(t)
  \/ \E t \in Tabs : CleanupOldPeers(t)
  \/ \E t \in Tabs : CheckGlobalPeers(t)
  \/ Quiescent /\ Tick

\* The receive path of the global-store manager: the tabs initialize once, the
\* sender sends, another context posts an event or writes the shared queue (a
\* null entry in front of a message for the receiver, or two messages for it),
\* and the callbacks, the poll and the handler steps interleave freely.
NextRecv ==
  \/ \E t \in Tabs : messageHandlers[t] = 0 /\ MMInitialize(t)
  \/ Quiescent /\ \E t \in Senders : \E c \in DOMAIN contacts[t] :
       SendDirectMessage(t, c, "hello")
  \/ \E data \in {NullData, NetworkMessageData(LaterDirect("B")),
                   NetworkMessageData(TamperedDirect("B"))} : ForeignPost(data)
  \/ \E t \in Receivers :
       \E entries \in {<<NullEntry, GlobalEntry(ValidDirect(UserOf(t)))>>,
                       <<GlobalEntry(ValidDirect(UserOf(t))),
                         GlobalEntry(LaterDirect(UserOf(t)))>>} :
         ForeignStore(entries)
  \/ \E t \in Tabs : BroadcastChannelOnMessage(t)
  \/ \E t \in Tabs : CheckGlobalPeers(t)
  \/ \E t \in Tabs : \E i \in DOMAIN tasks[t] : GetContact(t, i)
  \/ \E t \in Tabs : \E i \in DOMAIN tasks[t] : GetKeyPair(t, i)
  \/ \E t \in Tabs : \E i \in DOMAIN tasks[t] : SaveMessage(t, i)
  \/ \E t \in Tabs : \E i \in DOMAIN tasks[t] : NotifyListeners(t, i)

\* The CryptoManager called on its own: a message is sealed by the local
\* CryptoManager or by a peer (a plain text or the JSON of an ephemeral
\* message), may be changed on its way, and is opened with the keys of any
\* two users.
NextCrypto ==
  \/ \E m \in Plaintexts : \E s, r \in UserIds : CallEncryptDirect(m, s, r)
  \/ \E m \in Plaintexts : \E g \in GroupIds : CallEncryptGroup(m, g)
  \/ \E m \in Plaintexts : \E s, r \in UserIds : \E e \in ExpiryTimes :
       CallEncryptEphemeral(m, s, r, e)
  \/ \E m \in Plaintexts \cup {JSONstringify([content |-> "hello", expiresAt |-> e]) :
                                 e \in ExpiryTimes} :
       \E s, r \in UserIds : PeerSeals(m, s, r)
  \/ \E mode \in {"flipped", "truncated"} : Tamper(mode)
  \/ \E from, opener \in UserIds : CallDecryptDirect(from, opener)
  \/ \E g \in GroupIds \cup {"H"} : CallDecryptGroup(g)
  \/ \E from, opener \in UserIds : CallDecryptEphemeral(from, opener)

\* ------------------------------------------------ the messages of a chat
\* Array.prototype.sort by timestamp of the messages the iteration collected.
RECURSIVE sortByTimestamp(_)
sortByTimestamp(ms) ==
  IF ms = {} THEN <<>>
  ELSE LET first == CHOOSE m \in ms : \A o \in ms : m.timestamp <= o.timestamp
       IN <<first>> \o sortByTimestamp(ms \ {first})

\* StorageManager.getMessagesForChat(chatId): the stored messages whose
\* recipientId, groupId or senderId is chatId, sorted by timestamp.
getMessagesForChat(ms, chatId) ==
  sortByTimestamp({ms[id] : id \in {k \in DOMAIN ms :
     \/ ms[k].recipientId = chatId
     \/ ms[k].groupId = chatId
     \/ ms[k].senderId = chatId}})

\* ChatInterface, loadMessages for the active chat:
\* setChatMessages(await getMessagesForChat(activeChat.id)).
LoadMessages(t, activeChat) ==
  /\ mmCurrentUser[t] # NoId
  /\ chatMessages' = [chatMessages EXCEPT ![t] =
        [chat |-> activeChat, messages |-> getMessagesForChat(messages[t], activeChat)]]
  /\ statusEvents' = NoEvents
  /\ UNCHANGED <<connVars, lifeVars, sendVars, dispatchVars,
                 variant, cryptoVars, libp2pVars, initVars, closedPeers, now, ticks, currentUser, isInitialized, broadcastChannel,
                 messageHandlers, peers, dataChannels, mmCurrentUser,
                 messageListeners, contacts, groups, messages, inbox, tasks,
                 discoveredPeers, globalPeers, globalMessages, handed, accepted,
                 notified, lastHeard, signalingServer, nInject, nSend>>

\* Chats are opened while a direct or a group message of the contact arrives
\* and is decrypted and saved, and while the user sends.
NextChat ==
  \/ \E t \in Tabs : messageHandlers[t] = 0 /\ MMInitialize(t)
  \/ Quiescent /\ \E t \in Senders : \E c \in DOMAIN contacts[t] :
       SendDirectMessage(t, c, "hello")
  \/ \E t \in Receivers :
       \E m \in {ValidDirect(UserOf(t)), ValidGroup(UserOf(t))} :
         ForeignPost(NetworkMessageData(m))
  \/ \E t \in Tabs : BroadcastChannelOnMessage(t)
  \/ \E t \in Tabs : \E i \in DOMAIN tasks[t] : GetContact(t, i)
  \/ \E t \in Tabs : \E i \in DOMAIN tasks[t] : GetKeyPair(t, i)
  \/ \E t \in Tabs : \E i \in DOMAIN tasks[t] : GetGroup(t, i)
  \/ \E t \in Tabs : \E i \in DOMAIN tasks[t] : SaveMessage(t, i)
  \/ \E t \in Tabs : \E i \in DOMAIN tasks[t] : NotifyListeners(t, i)
  \/ \E t \in Tabs : \E activeChat \in DOMAIN contacts[t] \cup groups[t] :
       LoadMessages(t, activeChat)

\* --------------------------------------- SecurityManager: the secure backup
\* The values backed up and the passwords of the calls.
BackupValues == {"hello", "hi", ""}
Passwords == {"pw", "other"}
IntegrityFailed == "Backup integrity check failed"
UnsupportedVersion == "Unsupported backup version"
NoBackup == [error |-> "none", backup |-> [json |-> "none"], checksum |-> "none"]

\* nacl.hash, crypto_generichash: a digest of the bytes; a value that is no
\* Uint8Array throws.
naclHash(bytes) ==
  IF bytes.type # "Uint8Array" THEN [error |-> NotUint8Array, value |-> ""]
  ELSE [error |-> "none", value |-> <<"hash", bytes.value>>]

\* generateSalt(): random bytes, here one value.
generateSalt == "salt"

\* deriveKeyFromPassword(password, salt): the hash of password + salt.
deriveKeyFromPassword(password, salt) == naclHash(messageBytes(password \o salt))

\* generateMessageHash(content, timestamp, senderId): the hash of the three
\* values written one after the other.
generateMessageHash(content, timestamp, senderId) ==
  naclHash(messageBytes(<<content, timestamp, senderId>>))

\* encryptBackupData(data, password): JSON.stringify(data) in a secretbox
\* under the key derived from the password and a fresh salt.
encryptBackupData(data, password) ==
  LET salt == generateSalt
      derivedKey == deriveKeyFromPassword(password, salt)
      encrypted == Seal("secretbox", messageBytes([json |-> data]), {derivedKey.value})
  IN IF derivedKey.error # "none"
     THEN [error |-> derivedKey.error, encryptedData |-> [kind |-> "none"], salt |-> salt]
     ELSE IF encrypted.kind = "thrown"
     THEN [error |-> encrypted.error, encryptedData |-> [kind |-> "none"], salt |-> salt]
     ELSE [error |-> "none", encryptedData |-> encrypted, salt |-> salt]

\* decryptBackupData(encryptedData, password, salt): JSON.parse of the opened
\* box; a box that does not open throws.
decryptBackupData(encryptedData, password, salt) ==
  LET derivedKey == deriveKeyFromPassword(password, salt)
      decrypted == Open("secretbox", encryptedData, {derivedKey.value})
      text == decryptedText(decrypted)
  IN IF derivedKey.error # "none" THEN [error |-> derivedKey.error, data |-> ""]
     ELSE IF decrypted.type = "null" THEN [error |-> DecryptionFailed, data |-> ""]
     ELSE IF text.type # "string" THEN [error |-> text.value, data |-> ""]
     ELSE [error |-> "none", data |-> text.value.json]

\* generateSecureBackup(data, password) at the clock value clock: backup is
\* JSON.stringify of {version, timestamp, encryptedData, salt}, checksum is
\* generateMessageHash(backup, Date.now(), "backup").
generateSecureBackup(data, password, clock) ==
  LET enc == encryptBackupData(data, password)
      backup == [json |-> [version |-> "1.0", timestamp |-> clock,
                           encryptedData |-> enc.encryptedData, salt |-> enc.salt]]
      checksum == generateMessageHash(backup, clock, "backup")
  IN IF enc.error # "none" THEN [NoBackup EXCEPT !.error = enc.error]
     ELSE IF checksum.error # "none" THEN [NoBackup EXCEPT !.error = checksum.error]
     ELSE [error |-> "none", backup |-> backup, checksum |-> checksum.value]

\* restoreFromSecureBackup(backup, password, expectedChecksum) at the clock
\* value clock: the checksum is computed again with Date.now() and compared,
\* then the version is checked and the data decrypted.
restoreFromSecureBackup(backup, password, expectedChecksum, clock) ==
  LET actualChecksum == generateMessageHash(backup, clock, "backup")
      backupData == backup.json
  IN IF actualChecksum.error # "none" THEN [error |-> actualChecksum.error, data |-> ""]
     ELSE IF actualChecksum.value # expectedChecksum
     THEN [error |-> IntegrityFailed, data |-> ""]
     ELSE IF backupData.version # "1.0" THEN [error |-> UnsupportedVersion, data |-> ""]
     ELSE decryptBackupData(backupData.encryptedData, password, backupData.salt)

\* A call of generateSecureBackup: the call and what it returned are kept.
CallGenerateSecureBackup(data, password) ==
  /\ cryptoCall' = [fn |-> "generateSecureBackup", by |-> "generateSecureBackup",
                    data |-> data, password |-> password, madeAt |-> now,
                    made |-> generateSecureBackup(data, password, now),
                    altered |-> FALSE, restoredAt |-> 0,
                    restored |-> [error |-> "none", data |-> ""]] @@ NoCall
  /\ CryptoVarsUnchanged

\* The backup string is altered where it is kept: a byte of encryptedData.
AlterBackup ==
  /\ cryptoCall.fn = "generateSecureBackup" /\ cryptoCall.made.error = "none"
  /\ cryptoCall' = [cryptoCall EXCEPT
        !.fn = "alterBackup", !.altered = TRUE,
        !.made.backup.json.encryptedData.mac = "flipped"]
  /\ CryptoVarsUnchanged

\* A call of restoreFromSecureBackup with the backup and checksum kept.
CallRestoreFromSecureBackup(password) ==
  /\ cryptoCall.fn \in {"generateSecureBackup", "alterBackup"}
  /\ cryptoCall.made.error = "none"
  /\ cryptoCall' = [cryptoCall EXCEPT
        !.fn = "restoreFromSecureBackup", !.by = password, !.restoredAt = now,
        !.restored = restoreFromSecureBackup(cryptoCall.made.backup, password,
                                             cryptoCall.made.checksum, now)]
  /\ CryptoVarsUnchanged

\* Backups are generated, kept, altered and restored while the clock advances.
NextBackup ==
  \/ \E data \in BackupValues : \E password \in Passwords :
       CallGenerateSecureBackup(data, password)
  \/ AlterBackup
  \/ \E password \in Passwords : CallRestoreFromSecureBackup(password)
  \/ Tick

\* The polling store of the global-store manager: the tabs start at any time,
\* the sender hands a sealed direct message to its network manager, the clock
\* advances, and the recipient's poll, its channel callback and the steps of
\* its handler run.
NextPoll ==
  \/ \E t \in Tabs : messageHandlers[t] = 0 /\ MMInitialize(t)
  \/ Quiescent /\ \E t \in Senders :
       NetSendDirectMessage(t, OtherUser(t),
                            PeerSealed("hello", PublicKeyOf(OtherUser(t)),
                                       PrivateKeyOf(UserOf(t))), FALSE, FALSE)
  \/ \E t \in Tabs : CheckGlobalPeers(t)
  \/ \E t \in Tabs : BroadcastChannelOnMessage(t)
  \/ \E t \in Tabs : \E i \in DOMAIN tasks[t] : GetContact(t, i)
  \/ \E t \in Tabs : \E i \in DOMAIN tasks[t] : GetKeyPair(t, i)
  \/ \E t \in Tabs : \E i \in DOMAIN tasks[t] : SaveMessage(t, i)
  \/ \E t \in Tabs : \E i \in DOMAIN tasks[t] : NotifyListeners(t, i)
  \/ Quiescent /\ Tick

\* Sessions of one tab after the other: MessageManager.initialize with the
\* user of the tab or with a second user, the logout of ChatApp (handleLogout
\* clears the stores and calls nothing else), MessageManager.shutdown, and the
\* channel callback.
NextSession ==
  \/ \E t \in Tabs : \E user \in {UserOf(t), "C"} : MMInitializeUser(t, user)
  \/ \E t \in Tabs : ClearAllData(t)
  \/ \E t \in Tabs : isInitialized[t] /\ Shutdown(t)
  \/ \E t \in Tabs : BroadcastChannelOnMessage(t)

\* ------------------------------------ overlapping initialize (WebRTC manager)
\* initialize(user) up to the await inside connectToSignalingServer: the guard
\* on isInitialized, this.currentUser = user, this.signalingServer = new
\* WebSocket(..), whatever the field held.
InitializeCall(t, user) ==
  /\ variant = "webrtc"
  /\ ~isInitialized[t] /\ isNetworkOnline[t]
  /\ initPending[t] < MaxOverlap
  /\ currentUser' = [currentUser EXCEPT ![t] = user]
  /\ initPending' = [initPending EXCEPT ![t] = @ + 1]
  /\ liveSockets' = [liveSockets EXCEPT ![t] = @ + 1]
  /\ statusEvents' = NoEvents
  /\ UNCHANGED <<connVars, lifeVars, sendVars, dispatchVars, cryptoVars, libp2pVars, closedPeers, chatMessages,
                 variant, now, ticks, isInitialized, broadcastChannel, messageHandlers,
                 peers, dataChannels, mmCurrentUser, messageListeners, contacts,
                 groups, messages, inbox, tasks, discoveredPeers, globalPeers,
                 globalMessages, handed, accepted, notified, lastHeard,
                 signalingServer, nInject, nSend>>

\* The rest of a suspended initialize call once its socket has opened
\* (connected) or failed: setupCrossTabCommunication and announcePresence, or
\* the catch with setupFallbackCommunication; isInitialized is set either way.
InitializeResume(t, connected) ==
  /\ initPending[t] > 0
  /\ initPending' = [initPending EXCEPT ![t] = @ - 1]
  /\ liveSockets' = [liveSockets EXCEPT ![t] = IF connected THEN @ ELSE @ - 1]
  /\ isInitialized' = [isInitialized EXCEPT ![t] = TRUE]
  /\ initializeWebRTC(t, currentUser[t], connected)
  /\ UNCHANGED <<nShutdown, sendVars, dispatchVars, variant, cryptoVars, libp2pVars, closedPeers, chatMessages,
                 now, ticks, currentUser, messageHandlers, dataChannels, mmCurrentUser,
                 messageListeners, contacts, groups, messages, accepted, notified,
                 lastHeard, nInject, nSend>>

\* Two mounted hooks call initialize on the manager of their tab at once.
NextOverlap ==
  \/ \E t \in Tabs : InitializeCall(t, UserOf(t))
  \/ \E t \in Tabs : \E connected \in BOOLEAN : InitializeResume(t, connected)
  \/ \E t \in Tabs : BroadcastChannelOnMessage(t)

\* Two messages of one sender that carry the same timestamp reach the
\* receiver through the global queue and are decrypted, saved and notified.
NextIds ==
  \/ \E t \in Tabs : messageHandlers[t] = 0 /\ MMInitialize(t)
  \/ \E t \in Receivers :
       \E entries \in {<<GlobalEntry(ValidDirect(UserOf(t))),
                         GlobalEntry(SameMsDirect(UserOf(t)))>>,
                       <<GlobalEntry(ValidDirect(UserOf(t))),
                         GlobalEntry(LaterDirect(UserOf(t)))>>} :
         ForeignStore(entries)
  \/ \E t \in Tabs : CheckGlobalPeers(t)
  \/ \E t \in Tabs : \E i \in DOMAIN tasks[t] : GetContact(t, i)
  \/ \E t \in Tabs : \E i \in DOMAIN tasks[t] : GetKeyPair(t, i)
  \/ \E t \in Tabs : \E i \in DOMAIN tasks[t] : SaveMessage(t, i)
  \/ \E t \in Tabs : \E i \in DOMAIN tasks[t] : NotifyListeners(t, i)

\* Peers that go and come back (WebRTC manager): the tabs start, peers join,
\* their data channels open and close, their connections fail, and the
\* signaling server announces them again.
NextReconnect ==
  \/ \E t \in Tabs : Initialize(t)
  \/ \E t \in Tabs : \E data \in PeerEvents(t, OtherUser(t)) : PeerReturns(t, data)
  \/ \E t \in Tabs : SignalingOnMessage(t)
  \/ \E t \in Tabs : \E p \in peers[t] : DataChannelOnOpen(t, p)
  \/ \E t \in Tabs : \E p \in peers[t] : DataChannelOnClose(t, p)
  \/ \E t \in Tabs : isInitialized[t] /\ Shutdown(t)

\* ------------------------------------------- the libp2p/GossipSub manager
\* The topics of the manager; topic.startsWith(prefix) over the names in use.
PUBSUB_TOPIC_DISCOVERY == "securechat:discovery"
PUBSUB_TOPIC_PREFIX == "securechat:group:"
DirectTopic(recipientId) == "securechat:direct:" \o recipientId
GroupTopic(groupId) == PUBSUB_TOPIC_PREFIX \o groupId
startsWith(topic, prefix) == \E rest \in GroupIds \cup UserIds : topic = prefix \o rest

\* The two nodes hold a connection to each other.
Connected(t, u) == u \in libp2pPeers[t] /\ t \in libp2pPeers[u]

\* GossipSub delivers what t publishes on a topic to the connected nodes that
\* are subscribed to it, never to t itself (emitSelf: false), and accepts a
\* publish that reaches nobody (allowPublishToZeroPeers: true).
Subscribers(t, topic) ==
  {u \in Tabs \ {t} : Connected(t, u) /\ topic \in pubsubTopics[u]}

CanPublish(t, topic) ==
  \A u \in Subscribers(t, topic) : Len(pubsubEvents[u]) < MaxInbox

publish(t, topic, message) ==
  [u \in Tabs |->
     IF u \in Subscribers(t, topic)
     THEN Append(pubsubEvents[u], [topic |-> topic, data |-> message])
     ELSE pubsubEvents[u]]

\* What announcePresence publishes, and the messages of sendDirectMessage and
\* sendGroupMessage as JSON.stringify and JSON.parse carry them: the undefined
\* fields (signature, and recipientId or groupId) are not in the text.
Libp2pAnnouncement(user) ==
  [type |-> "peer_announcement", senderId |-> user,
   publicKey |-> PublicKeyOf(user), timestamp |-> now]

Libp2pDirect(user, recipientId, content) ==
  [type |-> "direct_message", senderId |-> user, recipientId |-> recipientId,
   content |-> content, timestamp |-> now]

Libp2pGroup(user, groupId, content) ==
  [type |-> "group_message", senderId |-> user, groupId |-> groupId,
   content |-> content, timestamp |-> now]

Libp2pUnchanged ==
  UNCHANGED <<connVars, lifeVars, sendVars, dispatchVars, cryptoVars, initVars, chatMessages,
              closedPeers,
              variant, now, ticks, broadcastChannel, dataChannels, mmCurrentUser,
              messageListeners, contacts, groups, messages, inbox, tasks,
              discoveredPeers, globalPeers, globalMessages, accepted, notified,
              lastHeard, signalingServer, nInject>>

\* initialize(user): createLibp2p and start give a started node (started) or
\* throw; the node subscribes to the discovery topic, announces itself and
\* starts the heartbeat. A failure is thrown on with isInitialized unset.
Libp2pInitialize(t, started) ==
  /\ ~isInitialized[t]
  /\ CanPublish(t, PUBSUB_TOPIC_DISCOVERY)
  /\ currentUser' = [currentUser EXCEPT ![t] = UserOf(t)]
  /\ IF started
     THEN /\ libp2pNode' = [libp2pNode EXCEPT ![t] = TRUE]
          /\ pubsubTopics' = [pubsubTopics EXCEPT ![t] = @ \cup {PUBSUB_TOPIC_DISCOVERY}]
          /\ pubsubEvents' = publish(t, PUBSUB_TOPIC_DISCOVERY, Libp2pAnnouncement(UserOf(t)))
          /\ isInitialized' = [isInitialized EXCEPT ![t] = TRUE]
     ELSE UNCHANGED <<libp2pNode, pubsubTopics, pubsubEvents, isInitialized>>
  /\ statusEvents' = NoEvents
  /\ UNCHANGED <<messageHandlers, peers, handed, nSend, libp2pPeers, directSent>>
  /\ Libp2pUnchanged

\* The "peer:connect" listener of setupLibp2pHandlers: the node of tab u has
\* connected; notifyPeerStatus(peerId, true).
PeerConnect(t, u) ==
  /\ libp2pNode[t] /\ libp2pNode[u] /\ u \notin libp2pPeers[t]
  /\ libp2pPeers' = [libp2pPeers EXCEPT ![t] = @ \cup {u}]
  /\ statusEvents' = [by |-> "peer:connect", tab |-> t, events |-> {<<u, TRUE>>}]
  /\ UNCHANGED <<currentUser, isInitialized, messageHandlers, peers, handed, nSend,
                 libp2pNode, pubsubTopics, pubsubEvents, directSent>>
  /\ Libp2pUnchanged

\* onMessage(handler).
Libp2pOnMessage(t) ==
  /\ messageHandlers[t] < MaxHandlers
  /\ messageHandlers' = [messageHandlers EXCEPT ![t] = @ + 1]
  /\ statusEvents' = NoEvents
  /\ UNCHANGED <<currentUser, isInitialized, peers, handed, nSend, libp2pVars>>
  /\ Libp2pUnchanged

\* joinGroup(groupId): the node subscribes to the topic of the group.
Libp2pJoinGroup(t, groupId) ==
  /\ libp2pNode[t]
  /\ pubsubTopics' = [pubsubTopics EXCEPT ![t] = @ \cup {GroupTopic(groupId)}]
  /\ statusEvents' = NoEvents
  /\ UNCHANGED <<currentUser, isInitialized, messageHandlers, peers, handed, nSend,
                 libp2pNode, pubsubEvents, libp2pPeers, directSent>>
  /\ Libp2pUnchanged

\* sendDirectMessage(recipientId, content): "Network not initialized" is
\* thrown without a user or a node; the sender subscribes to the topic
\* securechat:direct:<recipientId> and publishes the message on it.
Libp2pSendDirectMessage(t, recipientId, content) ==
  LET directTopic == DirectTopic(recipientId)
      message == Libp2pDirect(currentUser[t], recipientId, content)
  IN /\ currentUser[t] # NoId /\ libp2pNode[t]
     /\ nSend < MaxPublish
     /\ CanPublish(t, directTopic)
     /\ pubsubTopics' = [pubsubTopics EXCEPT ![t] = @ \cup {directTopic}]
     /\ pubsubEvents' = publish(t, directTopic, message)
     /\ directSent' =
          IF \E u \in TabOf(recipientId) \ {t} :
               isInitialized[t] /\ isInitialized[u] /\ Connected(t, u)
          THEN directSent \cup {message} ELSE directSent
     /\ nSend' = nSend + 1
     /\ statusEvents' = NoEvents
     /\ UNCHANGED <<currentUser, isInitialized, messageHandlers, peers, handed,
                    libp2pNode, libp2pPeers>>
     /\ Libp2pUnchanged

\* sendGroupMessage(groupId, content): published on the topic of the group.
Libp2pSendGroupMessage(t, groupId, content) ==
  /\ currentUser[t] # NoId /\ libp2pNode[t]
  /\ nSend < MaxPublish
  /\ CanPublish(t, GroupTopic(groupId))
  /\ pubsubEvents' = publish(t, GroupTopic(groupId),
                             Libp2pGroup(currentUser[t], groupId, content))
  /\ nSend' = nSend + 1
  /\ statusEvents' = NoEvents
  /\ UNCHANGED <<currentUser, isInitialized, messageHandlers, peers, handed,
                 libp2pNode, pubsubTopics, libp2pPeers, directSent>>
  /\ Libp2pUnchanged

\* The heartbeat interval of startHeartbeat: announcePresence.
Heartbeat(t) ==
  /\ isInitialized[t] /\ currentUser[t] # NoId /\ libp2pNode[t]
  /\ CanPublish(t, PUBSUB_TOPIC_DISCOVERY)
  /\ pubsubEvents' = publish(t, PUBSUB_TOPIC_DISCOVERY, Libp2pAnnouncement(currentUser[t]))
  /\ statusEvents' = NoEvents
  /\ UNCHANGED <<currentUser, isInitialized, messageHandlers, peers, handed, nSend,
                 libp2pNode, pubsubTopics, libp2pPeers, directSent>>
  /\ Libp2pUnchanged

\* handlePubSubMessage(event): own messages are ignored; an announcement on
\* the discovery topic enters this.discoveredPeers (the peer set of the tab)
\* with a connect notification; a group message on a group topic goes to
\* handleIncomingMessage, which calls every registered handler; a message on
\* any other topic is handled by no branch.
handlePubSubMessage(t, event) ==
  LET topic == event.topic
      message == event.data
  IN IF message.senderId = currentUser[t]
     THEN /\ statusEvents' = NoEvents
          /\ UNCHANGED <<peers, handed>>
     ELSE IF topic = PUBSUB_TOPIC_DISCOVERY
     THEN IF message.type = "peer_announcement"
          THEN /\ peers' = [peers EXCEPT ![t] = @ \cup {message.senderId}]
               /\ statusEvents' = [by |-> "announcement", tab |-> t,
                                   events |-> {<<message.senderId, TRUE>>}]
               /\ UNCHANGED handed
          ELSE /\ statusEvents' = NoEvents
               /\ UNCHANGED <<peers, handed>>
     ELSE IF startsWith(topic, PUBSUB_TOPIC_PREFIX) /\ message.type = "group_message"
     THEN /\ handed' = [handed EXCEPT ![t] =
                @ \cup {[message |-> message, called |-> HandlersFor(t, message)]}]
          /\ statusEvents' = NoEvents
          /\ UNCHANGED peers
     ELSE /\ statusEvents' = NoEvents
          /\ UNCHANGED <<peers, handed>>

\* The pubsub "message" listener of setupLibp2pHandlers.
PubSubOnMessage(t) ==
  /\ pubsubEvents[t] # <<>>
  /\ handlePubSubMessage(t, Head(pubsubEvents[t]))
  /\ pubsubEvents' = [pubsubEvents EXCEPT ![t] = Tail(@)]
  /\ UNCHANGED <<currentUser, isInitialized, messageHandlers, nSend,
                 libp2pNode, pubsubTopics, libp2pPeers, directSent>>
  /\ Libp2pUnchanged

\* The libp2p manager: the tabs start their node or fail to, the nodes
\* connect, handlers are registered, groups joined, direct and group messages
\* sent to every identity, and the pubsub listener handles what arrives.
NextLibp2p ==
  \/ \E t \in Tabs : \E started \in BOOLEAN : Libp2pInitialize(t, started)
  \/ \E t, u \in Tabs : t # u /\ PeerConnect(t, u)
  \/ \E t \in Tabs : Libp2pOnMessage(t)
  \/ \E t \in Tabs : \E g \in GroupIds : Libp2pJoinGroup(t, g)
  \/ \E t \in Tabs : \E r \in UserIds : Libp2pSendDirectMessage(t, r, "ciphertext")
  \/ \E t \in Tabs : \E g \in GroupIds : Libp2pSendGroupMessage(t, g, "ciphertext")
  \/ \E t \in Tabs : Heartbeat(t)
  \/ \E t \in Tabs : PubSubOnMessage(t)

\* Discovery by announcement in the three managers: the tabs initialize (the
\* WebRTC manager connected to the signaling server or in fallback mode), they
\* and a third identity announce themselves on the broadcast channel, and the
\* onmessage callback handles what arrives.
NextDiscover ==
  \/ \E t \in Tabs : Initialize(t)
  \/ \E data \in ForeignAnnouncements : ForeignPost(data)
  \/ \E t \in Tabs : BroadcastChannelOnMessage(t)
  \/ \E t \in Tabs : AnnounceTimer(t)
  \/ Quiescent /\ Tick

Next ==
  \/ NextMsg
  \/ NextCrypto
  \/ NextRecv
  \/ NextPeer
  \/ NextDispatch
  \/ NextNet
  \/ NextSend
  \/ NextLife
  \/ NextDiscover
  \/ NextLibp2p
  \/ NextPoll
  \/ NextSession
  \/ NextOverlap
  \/ NextReconnect
  \/ NextIds
  \/ NextBackup
  \/ NextChat

InitPeer == Init /\ variant = "broadcast"

Spec == Init /\ [][Next]_vars
SpecMsg == Init /\ [][NextMsg]_vars
SpecPeer == InitPeer /\ [][NextPeer]_vars
SpecDispatch == InitPeer /\ [][NextDispatch]_vars

InitNet == Init /\ variant = "webrtc"
InitLife == Init /\ variant \in {"broadcast", "global"}

SpecNet == InitNet /\ [][NextNet]_vars
SpecSend == InitNet /\ [][NextSend]_vars
SpecOverlap == InitNet /\ [][NextOverlap]_vars
SpecReconnect == InitNet /\ [][NextReconnect]_vars
SpecLife == InitLife /\ [][NextLife]_vars

SpecDiscover == Init /\ [][NextDiscover]_vars

\* Sending, announcing and receiving in each of the three managers that keep
\* a broadcast channel.
SpecOutbound == Init /\ [][NextDispatch]_vars

\* The libp2p manager, and the same with the pubsub listener run for every
\* event that is waiting.
InitLibp2p == variant = "libp2p" /\ InitState
SpecLibp2p == InitLibp2p /\ [][NextLibp2p]_vars
FairLibp2p == SpecLibp2p /\ \A t \in Tabs : WF_vars(PubSubOnMessage(t))

InitRecv == Init /\ variant = "global"
SpecCrypto == InitPeer /\ [][NextCrypto]_vars
SpecBackup == InitPeer /\ [][NextBackup]_vars
SpecChat == InitPeer /\ [][NextChat]_vars
SpecRecv == InitRecv /\ [][NextRecv]_vars
SpecPoll == InitRecv /\ [][NextPoll]_vars
SpecIds == InitRecv /\ [][NextIds]_vars
SpecSession == InitPeer /\ [][NextSession]_vars

\* ================================================================== claims
\* C1 (dedup idempotence): a network message with a given envelope id that
\* reaches the P2PNetworkManager twice is persisted once and every registered
\* MessageManager listener is notified exactly once for it. Stated for a tab
\* with handleNetworkMessage registered once, where a second notification can
\* only come from a second delivery.
DedupIdempotence ==
  \A t \in Tabs :
    messageHandlers[t] <= 1 =>
      \A key \in DOMAIN notified[t] : notified[t][key] <= 1

\* C2 (direct message happy path), its "never twice" half: with A and B
\* initialised, each holding the other with the right public key, in the
\* broadcast-channel manager and with no foreign traffic, no listener of B is
\* notified more than once for the message A sent with sendDirectMessage.
HappyPathNotifiedOnce ==
  \A s \in Senders, r \in Receivers :
    (variant = "broadcast" /\ nInject = 0) =>
      \A id \in DOMAIN messages[s] : \A k \in 1..messageListeners[r] :
        <<id, k>> \in DOMAIN notified[r] => notified[r][<<id, k>>] = 1

\* C3 (self-echo suppression): a network message whose senderId is the current
\* user's id is never passed to a registered message handler and never
\* persisted, whichever channel it arrives on.
SelfEchoSuppressed ==
  \A t \in Tabs :
    /\ \A h \in handed[t] : h.message.senderId = UserOf(t) => h.called = 0
    /\ \A r \in accepted[t] : r.env.senderId # r.user

\* C3 witness: handleIncomingMessage got the tab's own message with handlers
\* registered, and called none.
SelfEchoArrived ==
  \E t \in Tabs : \E h \in handed[t] :
    /\ h.message.senderId = UserOf(t)
    /\ h.called = 0
    /\ messageHandlers[t] > 0

\* C4 (unknown sender): a direct_message whose senderId is not a stored contact
\* of the receiver is dropped: handleNetworkMessage never saves it and never
\* notifies a listener for it.
UnknownSenderDropped ==
  \A t \in Tabs :
    /\ \A r \in accepted[t] : r.env.type = "direct_message" => r.known
    /\ \A key \in DOMAIN notified[t] : \E r \in accepted[t] : r.message.id = key[1]
    /\ \A id \in DOMAIN messages[t] :
         messages[t][id].senderId # UserOf(t) => \E r \in accepted[t] : r.message.id = id

\* C4 witness: the handlers were called for a direct message of C, which is no
\* contact of the tab, and every handler has returned.
UnknownSenderArrived ==
  \E t \in Tabs : \E h \in handed[t] :
    /\ h.message = UnknownDirect(UserOf(t))
    /\ h.called > 0
    /\ "C" \notin DOMAIN contacts[t]
    /\ tasks[t] = <<>>

\* C5 (wrong recipient): a network message whose recipientId is set and is not
\* the current user's id is never persisted, on any receive path.
WrongRecipientDropped ==
  \A t \in Tabs : \A r \in accepted[t] :
    r.env.recipientId = NoId \/ r.env.recipientId = r.user

\* C6 (replay rejection): a message whose timestamp is more than
\* maxMessageAge older than the receiver's clock at reception is never
\* persisted.
ReplayRejected ==
  \A t \in Tabs : \A r \in accepted[t] :
    isMessageTimestampValid(r.env.timestamp, r.rcvAt)

\* C7 (blocked contacts): no direct message is persisted while its sender is
\* a blocked contact of the receiver.
BlockedSenderDropped ==
  \A t \in Tabs : \A r \in accepted[t] :
    r.env.type = "direct_message" => ~r.blocked

\* C8 (identity invariant): every stored contact and every peer of the peer
\* map has id = generateUserId(publicKey).
IdentityInvariant ==
  \A t \in Tabs :
    /\ \A c \in DOMAIN contacts[t] :
         contacts[t][c].id = generateUserId(contacts[t][c].publicKey)
    /\ \A p \in peers[t] \cap DOMAIN discoveredPeers :
         p = generateUserId(discoveredPeers[p].publicKey)

\* C9 (peer expiry): when a cleanup sweep of a tab has run, no peer whose last
\* announcement the tab handled more than the 30 s max age ago is left in its
\* peer map.
PeerExpiry ==
  statusEvents.by = "cleanup" =>
    \A p \in peers[statusEvents.tab] \cap DOMAIN lastHeard[statusEvents.tab] :
      now - lastHeard[statusEvents.tab][p] <= PeerMaxAge

\* C10 (liveness refresh): a cleanup sweep fires no disconnect notification
\* for a peer whose last announcement the tab handled within the max age.
LivenessRefresh ==
  statusEvents.by = "cleanup" =>
    \A e \in statusEvents.events :
      e[1] \in DOMAIN lastHeard[statusEvents.tab] =>
        now - lastHeard[statusEvents.tab][e[1]] > PeerMaxAge

\* The channels send was called on in the last send.
TriedChannels == {lastSend.tried[i] : i \in DOMAIN lastSend.tried}

\* C11 (channel failover): when sendDirectMessage of the WebRTC manager called
\* send on the recipient's data channel and it threw, it went on to the
\* signaling socket if that was open, and to the cross-tab broadcast if there
\* was none or it threw too; a channel took the message and nothing is raised.
ChannelFailover ==
  (/\ lastSend.kind = "direct_message"
   /\ "datachannel" \in TriedChannels \ lastSend.accepted) =>
    /\ Len(lastSend.tried) >= 2
    /\ lastSend.tried[2] = IF "signaling" \in lastSend.open THEN "signaling" ELSE "broadcast"
    /\ "signaling" \in TriedChannels \ lastSend.accepted =>
         lastSend.tried[Len(lastSend.tried)] = "broadcast"
    /\ lastSend.accepted \in {{"signaling"}, {"broadcast"}}
    /\ lastSend.error = "none"

\* C11 witness: the data channel threw and the signaling socket took the
\* direct message.
ChannelFailedOver ==
  /\ lastSend.kind = "direct_message"
  /\ lastSend.tried = <<"datachannel", "signaling">>
  /\ lastSend.accepted = {"signaling"}

\* C12 (fan-out): a send of the WebRTC manager calls send on every channel
\* that is open at that moment.
FanOut ==
  lastSend.tab # "none" /\ lastSend.error = "none" => lastSend.open \subseteq TriedChannels

\* C13 (graceful degradation at start-up): an initialize(user) of the WebRTC
\* manager whose connection to the signaling server fails raises nothing and
\* ends with isInitialized = true and the cross-tab channel open; a message
\* sent with only that channel open is queued in every other context that
\* holds the channel.
GracefulStartup ==
  [][/\ (nConnect' = nConnect + 1 /\ connLog'.by = "initialize" /\ connLog'.failed) =>
          /\ isInitialized'[connLog'.tab]
          /\ broadcastChannel'[connLog'.tab]
          /\ liveChannels'[connLog'.tab] >= 1
          /\ ~connLog'.raised
     /\ (nSend' = nSend + 1 /\ lastSend'.open = {"broadcast"}) =>
          /\ lastSend'.error = "none"
          /\ \A u \in Tabs \ {lastSend'.tab} :
               broadcastChannel[u] =>
                 /\ Len(inbox'[u]) = Len(inbox[u]) + 1
                 /\ inbox'[u][Len(inbox'[u])].via = "broadcast"]_vars

\* C13 witness: the sender's tab was started with the signaling server
\* unreachable and its message is queued in the other tab.
StartedOnFallback ==
  /\ connLog.by = "initialize" /\ connLog.failed
  /\ isInitialized[connLog.tab] /\ ~signalingServer[connLog.tab]
  /\ lastSend.tab = connLog.tab /\ lastSend.accepted = {"broadcast"}
  /\ \E u \in Tabs \ {connLog.tab} : inbox[u] # <<>>

\* C14 (bounded reconnection): once scheduleReconnect has found the
\* reconnect attempts exhausted and downgraded to fallback-only mode, no
\* connection attempt is made.
BoundedReconnection ==
  connLog.fallbackOnly => ~connLog.attempted

\* C15 (exponential backoff): a failed connection attempt with retries left
\* is followed by exactly one scheduled retry, of delay min(1000 * 2^k, 30000)
\* ms for the k-th consecutive failure.
ExponentialBackoff ==
  connLog.failed /\ connLog.attemptsBefore < maxReconnectAttempts =>
    connLog.scheduled = <<ReconnectDelay(connLog.attemptsBefore)>>

\* C16 (shutdown): no tab runs two copies of its timers, and no peer-status
\* handler is invoked and no message is handed to the handlers in a tab that
\* is shut down.
ShutdownStopsAll ==
  /\ \A t \in Tabs : intervals[t] <= 1
  /\ statusEvents.events # {} => isInitialized[statusEvents.tab]

\* C17 (scoped channel lifecycle): the BroadcastChannel objects a tab opened
\* and has not closed are the one its broadcastChannel field holds, if any.
ScopedChannels ==
  \A t \in Tabs : liveChannels[t] = IF broadcastChannel[t] THEN 1 ELSE 0

\* C18 (subscriber isolation): when an accepted message is dispatched, every
\* registered listener is called for it, also when one of them throws.
SubscriberIsolation ==
  lastDispatch.tab # "none" => Len(lastDispatch.called) = lastDispatch.registered

\* C19 (acceptance order): when the listeners are notified for an accepted
\* message, saveMessage has stored it, and the listeners are called in the
\* order of their registration.
AcceptanceOrder ==
  lastDispatch.tab # "none" =>
    /\ lastDispatch.stored
    /\ \A i, j \in DOMAIN lastDispatch.called :
         i < j => lastDispatch.called[i] < lastDispatch.called[j]

\* C19 witness: a dispatch that called two listeners.
AcceptedDispatchedToTwo ==
  lastDispatch.tab # "none" /\ Len(lastDispatch.called) = 2

PreconditionErrors == {"Contact not found", "Key pair not found", "Group not found"}

\* C20 (send preconditions): a sendDirectMessage to a recipient that is no
\* stored contact fails with "Contact not found", one without a key pair with
\* "Key pair not found", a sendGroupMessage to an unknown group with "Group not
\* found"; a send that fails so stores no message and hands nothing to the
\* network.
SendPreconditions ==
  [][nSend' = nSend + 1 =>
       LET l == lastSend'
           t == lastSend'.tab
           direct == l.kind = "direct_message" /\ mmCurrentUser[t] # NoId
           group == l.kind = "group_message" /\ mmCurrentUser[t] # NoId
       IN /\ direct /\ l.target \notin DOMAIN contacts[t] => l.error = "Contact not found"
          /\ direct /\ l.target \in DOMAIN contacts[t] /\ ~keyPair[t] =>
               l.error = "Key pair not found"
          /\ group /\ l.target \notin groups[t] => l.error = "Group not found"
          /\ l.error \in PreconditionErrors =>
               /\ messages' = messages
               /\ inbox' = inbox
               /\ globalMessages' = globalMessages]_vars

\* C20 witness: a send has failed for the missing key pair, the recipient
\* being a stored contact.
SendFailedForKeys ==
  /\ lastSend.error = "Key pair not found"
  /\ lastSend.target \in DOMAIN contacts[lastSend.tab]

PollPastMalformed ==
  statusEvents.by = "poll" =>
    \A i \in DOMAIN globalMessages :
      IsMine(globalMessages[i], currentUser[statusEvents.tab]) =>
        \E h \in handed[statusEvents.tab] : h.message = globalMessages[i].message

\* C22 (receive-path robustness): no exception escapes a receive callback, and
\* a valid payload that follows a malformed one, in the same poll too, is
\* still handed to the message handlers.
ReceiveRobust ==
  /\ \A t \in Tabs : ~uncaught[t]
  /\ PollPastMalformed

\* C23 (per-channel ordering): when a message of one channel has passed every
\* check of handleNetworkMessage and waits to be saved, no message that came
\* after it on the channel has been saved already.
PerChannelOrder ==
  \A t \in Tabs : \A i, j \in DOMAIN tasks[t] :
    (/\ i < j
     /\ tasks[t][i].env # tasks[t][j].env
     /\ tasks[t][i].pc = "saveMessage") => tasks[t][j].pc # "notify"

\* C24 (serialized shared state), the queue of the shared store: a poll leaves
\* in a well-formed queue no entry it has handed to the message handlers, so
\* that no later poll delivers a queued message a second time.
SerializedQueue ==
  (statusEvents.by = "poll" /\ FirstNull(globalMessages) = 0) =>
    \A i \in DOMAIN globalMessages :
      IsMine(globalMessages[i], currentUser[statusEvents.tab]) =>
        \A h \in handed[statusEvents.tab] : h.message # globalMessages[i].message

\* C26 (round-trip): what encryptDirectMessage(P, recipient's public key,
\* sender's private key) returns is a ciphertext that decryptDirectMessage
\* with the sender's public key and the recipient's private key turns back
\* into P.
RoundTrip ==
  cryptoCall.fn = "encryptDirectMessage" =>
    /\ cryptoCall.sealed.kind = "box"
    /\ decryptDirectMessage(cryptoCall.sealed, PublicKeyOf(cryptoCall.sender),
                            PrivateKeyOf(cryptoCall.recipient)) = cryptoCall.plaintext

\* C27 (tamper rejection): decryptDirectMessage and decryptGroupMessage fail
\* with "Decryption failed" for every ciphertext that was changed or cut and
\* for every wrong key, and no message whose ciphertext was changed is past
\* the decryption of handleNetworkMessage, persisted or dispatched.
TamperRejection ==
  /\ \A m \in Plaintexts : \A s, r, from, opener \in UserIds :
       \A mac \in {"valid", "flipped", "truncated"} :
         LET c == [PeerSealed(m, PublicKeyOf(r), PrivateKeyOf(s)) EXCEPT !.mac = mac]
         IN (mac # "valid" \/ BoxKey(PublicKeyOf(from), PrivateKeyOf(opener))
                               # BoxKey(PublicKeyOf(r), PrivateKeyOf(s))) =>
              decryptDirectMessage(c, PublicKeyOf(from), PrivateKeyOf(opener))
                = DecryptionFailed
  /\ \A m \in Plaintexts : \A g, h \in GroupIds \cup {"H"} :
       \A mac \in {"valid", "flipped", "truncated"} :
         LET c == [Seal("secretbox", Uint8Array(m), {SymmetricKeyOf(g)})
                     EXCEPT !.mac = mac]
         IN (mac # "valid" \/ g # h) =>
              decryptGroupMessage(c, SymmetricKeyOf(h)) = DecryptionFailed
  /\ \A t \in Tabs :
       /\ \A i \in DOMAIN tasks[t] :
            tasks[t][i].pc \in {"saveMessage", "notify"} =>
              tasks[t][i].env.content.mac = "valid"
       /\ \A a \in accepted[t] : a.env.content.mac = "valid"
       /\ MessageId(TamperedDirect(UserOf(t)).senderId,
                    TamperedDirect(UserOf(t)).timestamp) \notin DOMAIN messages[t]
       /\ \A key \in DOMAIN notified[t] :
            key[1] # MessageId(TamperedDirect(UserOf(t)).senderId,
                               TamperedDirect(UserOf(t)).timestamp)

\* C27 witness: the tampered message was handed to the handler of a receiver
\* whose CryptoManager decrypts, and the handler has ended.
TamperedDropped ==
  /\ cryptoLib = "libsodium"
  /\ \E h \in handed["t2"] : h.message = TamperedDirect("B") /\ h.called > 0
  /\ tasks["t2"] = <<>>

\* C28 (ephemeral messages): what encryptEphemeralMessage(m, keys, expiresAt)
\* returns is a ciphertext from which decryptEphemeralMessage gives the
\* content m with isExpired = (now > expiresAt), expired or not; and
\* decryptEphemeralMessage gives null for a payload it cannot decrypt.
EphemeralRoundTrip ==
  /\ cryptoCall.fn = "encryptEphemeralMessage" =>
       /\ cryptoCall.sealed.kind = "box"
       /\ decryptEphemeralMessage(cryptoCall.sealed, PublicKeyOf(cryptoCall.sender),
                                  PrivateKeyOf(cryptoCall.recipient), now)
            = [isNull |-> FALSE, content |-> cryptoCall.plaintext,
               isExpired |-> now > cryptoCall.expiresAt]
  /\ (/\ cryptoCall.fn = "decryptEphemeralMessage"
      /\ \/ cryptoCall.sealed.mac # "valid"
         \/ cryptoCall.sealed.kind # "box"
         \/ BoxKey(PublicKeyOf(cryptoCall.from), PrivateKeyOf(cryptoCall.opener))
              # BoxKey(PublicKeyOf(cryptoCall.recipient), PrivateKeyOf(cryptoCall.sender)))
       => cryptoCall.ephemeral.isNull

\* C29 (discovery by presence announcement): when the onmessage callback of
\* the broadcast channel handles a presence announcement of another user id,
\* that peer is in the receiver's peer set afterwards, and a peer that was
\* not there before is notified as connected; in every manager, the WebRTC
\* manager in fallback mode included.
IsAnnouncement(data) ==
  data.type \in {"peer_announcement", "user_join"}

AnnouncementHandled(t) ==
  /\ inbox[t] # <<>>
  /\ Head(inbox[t]).via = "broadcast"
  /\ IsAnnouncement(Head(inbox[t]).data)
  /\ Head(inbox[t]).data.userId # currentUser[t]
  /\ inbox'[t] = Tail(inbox[t])
  /\ UNCHANGED <<isInitialized, broadcastChannel>>

DiscoveryByAnnouncement ==
  [][\A t \in Tabs :
       AnnouncementHandled(t) =>
         LET peerId == Head(inbox[t]).data.userId
         IN /\ peerId \in peers'[t]
            /\ peerId \notin peers[t] =>
                 statusEvents' = [by |-> "announcement", tab |-> t,
                                  events |-> {<<peerId, TRUE>>}]]_vars

\* C30 (libp2p routing and delivery): a direct message that A sent with
\* sendDirectMessage(B, ...) while A and B were both initialised and connected
\* is eventually handed to the message handlers of B's manager.
DirectDelivery ==
  \A t \in Tabs :
    (\E m \in directSent : m.recipientId = UserOf(t))
      ~> (\E h \in handed[t] : h.message \in directSent)

\* C30, what happens instead: no direct message is ever handed to a handler.
NoDirectHanded ==
  \A t \in Tabs : \A h \in handed[t] : h.message.type # "direct_message"

\* C25 (confidentiality of what leaves the device): every payload handed to a
\* channel or written to a shared store is free of private keys and of message
\* plaintext: the content of a network message is the ciphertext of
\* encryptDirectMessage for the recipient's key or of encryptGroupMessage for
\* the group's key, and announcements and stored peer entries carry the user
\* id, the public key and timestamps only.
PrivateKeys == {PrivateKeyOf(u) : u \in UserIds}

MessageConfidential(m) ==
  /\ {m.senderId, m.recipientId, m.groupId} \cap PrivateKeys = {}
  /\ m.type = "direct_message" =>
       /\ m.content.kind = "box"
       /\ m.content.key = BoxKey(PublicKeyOf(m.recipientId), PrivateKeyOf(m.senderId))
  /\ m.type = "group_message" =>
       /\ m.content.kind = "secretbox"
       /\ m.content.key = {SymmetricKeyOf(m.groupId)}

PayloadConfidential(data) ==
  IF data.type = "network_message" THEN MessageConfidential(data.message)
  ELSE IF data.type \in {"direct_message", "group_message"} THEN MessageConfidential(data)
  ELSE IF data.type \in {"peer_announcement", "user_join"}
  THEN /\ DOMAIN data = {"type", "userId", "publicKey"}
       /\ {data.userId, data.publicKey} \cap PrivateKeys = {}
  ELSE TRUE

PeerEntriesConfidential(store) ==
  \A p \in DOMAIN store :
    /\ DOMAIN store[p] = {"lastSeen", "publicKey"}
    /\ {p, store[p].publicKey} \cap PrivateKeys = {}

Confidentiality ==
  /\ \A t \in Tabs : \A i \in DOMAIN inbox[t] : PayloadConfidential(inbox[t][i].data)
  /\ \A i \in DOMAIN globalMessages :
       globalMessages[i] # NullEntry => MessageConfidential(globalMessages[i].message)
  /\ PeerEntriesConfidential(globalPeers)
  /\ PeerEntriesConfidential(discoveredPeers)

\* C25 witness: a direct message of the sending tab's MessageManager is on a
\* channel while the presence of its user is announced or stored.
CiphertextOnChannel ==
  /\ lastSend.kind = "direct_message" /\ lastSend.error = "none"
  /\ \E t \in Tabs : \E i \in DOMAIN inbox[t] :
       LET data == inbox[t][i].data
       IN \/ data.type = "network_message" /\ data.message.type = "direct_message"
          \/ data.type = "direct_message"
  /\ \/ globalPeers # << >>
     \/ discoveredPeers # << >>
     \/ \E t \in Tabs : \E i \in DOMAIN inbox[t] :
          inbox[t][i].data.type \in {"peer_announcement", "user_join"}

\* C31 (at-least-once through the polling store): when a poll of a tab has
\* run, every direct message for the tab's user that the shared queue held
\* before the poll has been handed to the tab's message handlers, by this
\* poll or before it.
PollBy(t) ==
  /\ statusEvents'.by = "poll" /\ statusEvents'.tab = t
  /\ currentUser[t] # NoId

QueuedFor(t) ==
  {globalMessages[i].message : i \in
     {j \in DOMAIN globalMessages :
        /\ globalMessages[j] # NullEntry
        /\ globalMessages[j].recipientId = currentUser[t]
        /\ globalMessages[j].senderId # currentUser[t]}}

PollDelivery ==
  [][\A t \in Tabs :
       PollBy(t) => \A m \in QueuedFor(t) : \E h \in handed'[t] : h.message = m]_vars

\* C32 (the polling store consumes what it delivers): after a poll of a tab
\* none of the queue entries the poll handed to the handlers is left in the
\* shared queue.
PollConsumes ==
  [][\A t \in Tabs :
       (PollBy(t) /\ FirstNull(globalMessages) = 0) =>
         \A i \in DOMAIN globalMessages :
           IsMine(globalMessages[i], currentUser[t]) =>
             \A j \in DOMAIN globalMessages' : globalMessages'[j] # globalMessages[i]]_vars

\* C33 (idempotent initialisation of MessageManager): however often
\* MessageManager.initialize runs, one handleNetworkMessage handler is
\* registered with the network, and an inbound network message is handed to
\* one handler.
SingleNetworkHandler ==
  \A t \in Tabs :
    /\ messageHandlers[t] <= 1
    /\ \A h \in handed[t] : h.called <= 1

\* C34 (one identity per session): the user MessageManager works for is the
\* user the P2PNetworkManager of the tab sends and filters as, after any
\* sequence of initialize, logout and shutdown calls.
OneIdentity ==
  \A t \in Tabs : mmCurrentUser[t] # NoId => currentUser[t] = mmCurrentUser[t]

\* C35 (overlapping initialisation): initialize calls that overlap on one
\* manager create one signaling WebSocket and one BroadcastChannel.
SingleTransport ==
  \A t \in Tabs : liveSockets[t] <= 1 /\ liveChannels[t] <= 1

\* C36 (disconnect notifications concern known peers only): a cleanup sweep
\* of a tab notifies (peerId, false) only for ids that are in the tab's peer
\* set when the sweep runs, never for the tab's own user.
SweepBy(t) == statusEvents'.by = "cleanup" /\ statusEvents'.tab = t

DisconnectKnownOnly ==
  [][\A t \in Tabs :
       SweepBy(t) =>
         \A e \in statusEvents'.events :
           e[2] = FALSE => (e[1] \in peers[t] /\ e[1] # currentUser[t])]_vars
\* C37: in the WebRTC manager, once the connection to a peer has failed or its
\* data channel has closed, a later user_joined, user_list or webrtc_offer
\* event for that peer id that the tab handles starts a new connection
\* attempt: the entry of the peer map is no longer a closed one.
ReturnHandled(t, p) ==
  /\ p \in closedPeers[t]
  /\ currentUser[t] # NoId
  /\ inbox[t] # <<>> /\ Head(inbox[t]).via = "signaling"
  /\ Head(inbox[t]).data \in PeerEvents(t, p)
  /\ inbox'[t] = Tail(inbox[t])
  /\ UNCHANGED <<isInitialized, signalingServer>>

FailedPeerReturns ==
  [][\A t \in Tabs : \A p \in {OtherUser(t)} :
       ReturnHandled(t, p) => p \notin closedPeers'[t]]_vars

\* C38: message ids are unique, so every message a tab has accepted and saved
\* stays retrievable: the message store holds it, unchanged, under its id.
UniqueMessageIds ==
  \A t \in Tabs : \A a \in accepted[t] :
    /\ a.message.id \in DOMAIN messages[t]
    /\ messages[t][a.message.id] = a.message

\* C39: restoreFromSecureBackup(backup, password, checksum) of the backup and
\* checksum that generateSecureBackup(data, password) returned gives data back,
\* at whatever clock value it is called after the backup was made; a backup
\* altered after it was made is rejected with the integrity error.
BackupRoundTrip ==
  (cryptoCall.fn = "restoreFromSecureBackup" /\ cryptoCall.by = cryptoCall.password) =>
    IF cryptoCall.altered
    THEN cryptoCall.restored.error = IntegrityFailed
    ELSE cryptoCall.restored = [error |-> "none", data |-> cryptoCall.data]

\* C40: the messages loaded for a chat are the messages of that chat only: for
\* a group, the messages of the group; for a contact, the direct messages
\* exchanged between the current user and the contact, never a group message
\* the contact sent.
InChat(m, chat, user) ==
  IF chat \in GroupIds
  THEN m.groupId = chat
  ELSE /\ m.groupId = NoId
       /\ \/ m.senderId = chat /\ m.recipientId = user
          \/ m.senderId = user /\ m.recipientId = chat

ChatScoping ==
  \A t \in Tabs :
    \A i \in DOMAIN chatMessages[t].messages :
      InChat(chatMessages[t].messages[i], chatMessages[t].chat, mmCurrentUser[t])

====
